---- MODULE Spec2Model ----
(***************************************************************************)
(* A model of edtui-jagged: the ragged two-dimensional container           *)
(* Jagged<T> (src/src/jagged.rs), its position type Index2                 *)
(* (src/src/index.rs), the range engine (range_bounds, extract,            *)
(* extract_rows, copy_range), the position-aware iterator                  *)
(* (src/src/jagged/iter.rs) and the pattern search                         *)
(* (src/src/jagged/match_indices.rs).                                      *)
(*                                                                         *)
(* A container is a sequence of rows, a row a sequence of elements.  The   *)
(* code addresses rows and columns from 0; TLA+ sequences start at 1, so   *)
(* row r of the code is self[r + 1] here.  Positions, row indices and      *)
(* lengths are kept 0-based, exactly as in the code.                       *)
(*                                                                         *)
(* A call that panics is modelled by a result whose field panicked is      *)
(* TRUE.  usize arithmetic keeps a width (UsizeBits): `a + 1` on           *)
(* usize::MAX panics when the build checks overflow (debug, cargo fuzz)    *)
(* and wraps when it does not (release); the build is an input of every    *)
(* call that can overflow.                                                 *)
(*                                                                         *)
(* Eight systems share the variables: Spec applies extract, the lookups    *)
(* and the steps of next and prev to a freshly built container, SpecCopy   *)
(* applies copy_range, SpecRange applies range_bounds and copy_range       *)
(* followed by extract, SpecEdit applies the editing operations            *)
(* (split_off, merge, append, join_lines, truncate, remove, push, insert)  *)
(* and the collection of the iterator's items, SpecText converts a text to *)
(* a container and back, SpecIter runs a forward or a reverse traversal    *)
(* to exhaustion, SpecFind applies the predicate searches and the mutable  *)
(* steps, and SpecMatch drives one match_indices iterator to exhaustion.   *)
(***************************************************************************)
EXTENDS Integers, Sequences, FiniteSets, TLC

VARIABLES
    data,       \* self.data of the container under test: Vec<Vec<T>>
    old,        \* the container as it was before the last operation
    op,         \* the last operation applied ("new": freshly constructed)
    arg,        \* the argument of the last operation
    result,     \* what the last operation returned
    panicked,   \* whether the last operation panicked
    cursor      \* the iterator in use, if any (MatchIndices::start_index)

vars == <<data, old, op, arg, result, panicked, cursor>>

\* ------------------------------------------------------------ bounds

\* Most rows of a container under test.
MaxRows == 3
\* Most elements of a row of a container under test.
MaxCols == 2
\* Width of usize in the model (16 is the narrowest usize Rust supports).
UsizeBits == 16

UsizeMax == (2 ^ UsizeBits) - 1

\* ------------------------------------------------------------ usize

saturating_sub(a, b) == IF a > b THEN a - b ELSE 0

wrapping_add(a, b) == (a + b) % (UsizeMax + 1)

Min(a, b) == IF a < b THEN a ELSE b

\* ------------------------------------------------------------ Index2

Index2(row, col) == [row |-> row, col |-> col]

\* PartialOrd for Index2: row first, then column.
Less(a, b) == a.row < b.row \/ (a.row = b.row /\ a.col < b.col)

Greater(a, b) == Less(b, a)

LessEq(a, b) == a = b \/ Less(a, b)

\* ------------------------------------------------------------ container

is_empty(self) == Len(self) = 0

len(self) == Len(self)

\* self.data.get(row).is_some()
has_row(self, row) == row < Len(self)

\* self.data[row].len(); the caller has checked has_row.
len_col_unchecked(self, row) == Len(self[row + 1])

last_row_index(self) == saturating_sub(Len(self), 1)

last_col_index(self, row_index) ==
    IF has_row(self, row_index)
    THEN saturating_sub(len_col_unchecked(self, row_index), 1)
    ELSE 0

\* out_of_bounds without the exemption of column 0.
out_of_bounds_no_col0(p, self) ==
    p.row >= Len(self) \/ p.col >= Len(self[p.row + 1])

\* Index2::out_of_bounds
out_of_bounds(p, self) ==
    p.row >= len(self) \/ (p.col # 0 /\ p.col >= len_col_unchecked(self, p.row))

\* JaggedIndex for Index2: Option<&T> as [some, val].
None == [some |-> FALSE]

Some(v) == [some |-> TRUE, val |-> v]

get(self, p) ==
    IF has_row(self, p.row) /\ p.col < len_col_unchecked(self, p.row)
    THEN Some(self[p.row + 1][p.col + 1])
    ELSE None

\* Vec::append: other is moved onto the end of self (other is left empty).
append(self, other) == self \o other

\* Vec::drain(from..to) on a vector of elements or of rows: panics when
\* from > to or to > len; otherwise removes and returns [from, to).
Drain(v, from, to) ==
    IF from > to \/ to > Len(v)
    THEN [panicked |-> TRUE, taken |-> <<>>, rest |-> v]
    ELSE [panicked |-> FALSE,
          taken |-> SubSeq(v, from + 1, to),
          rest |-> SubSeq(v, 1, from) \o SubSeq(v, to + 1, Len(v))]

\* join_lines putting the later row in front of the earlier one.
join_lines_swapped(self, row_index) ==
    IF row_index + 1 >= Len(self)
    THEN self
    ELSE LET row == self[row_index + 2]
             removed == SubSeq(self, 1, row_index + 1)
                            \o SubSeq(self, row_index + 3, Len(self))
         IN [removed EXCEPT ![row_index + 1] = row \o @]

\* Jagged::join_lines for a row_index below usize::MAX.
join_lines(self, row_index) ==
    IF row_index + 1 >= len(self)
    THEN self
    ELSE LET row == self[row_index + 2]
             removed == SubSeq(self, 1, row_index + 1)
                            \o SubSeq(self, row_index + 3, Len(self))
         IN [removed EXCEPT ![row_index + 1] = @ \o row]

\* ------------------------------------------------------------ ranges

Included(p) == [kind |-> "Included", val |-> p]

Excluded(p) == [kind |-> "Excluded", val |-> p]

Unbounded == [kind |-> "Unbounded", val |-> Index2(0, 0)]

Range(s, e) == [start |-> s, end |-> e]

\* Jagged::range_bounds: kind "Some" with the inclusive (start, end),
\* "None" for an excluded end (0, 0), "Panic" when val.col + 1 overflows in
\* a build that checks overflow.
range_bounds(self, range, overflow_checks) ==
    LET sb == range.start
        eb == range.end
        start == CASE sb.kind = "Included" -> Index2(sb.val.row, sb.val.col)
                   [] sb.kind = "Excluded" ->
                          Index2(sb.val.row, wrapping_add(sb.val.col, 1))
                   [] OTHER -> Index2(0, 0)
        end == CASE eb.kind = "Included" -> Index2(eb.val.row, eb.val.col)
                 [] eb.kind = "Excluded" /\ eb.val.col = 0 ->
                        Index2(eb.val.row - 1,
                               last_col_index(self, eb.val.row - 1))
                 [] eb.kind = "Excluded" ->
                        Index2(eb.val.row, eb.val.col - 1)
                 [] OTHER -> Index2(last_row_index(self),
                                    last_col_index(self, last_row_index(self)))
    IN IF sb.kind = "Excluded" /\ sb.val.col = UsizeMax /\ overflow_checks
       THEN [kind |-> "Panic"]
       ELSE IF eb.kind = "Excluded" /\ eb.val = Index2(0, 0)
       THEN [kind |-> "None"]
       ELSE [kind |-> "Some", start |-> start, end |-> end]

\* ------------------------------------------------------------ extract

Returned(self, drained) ==
    [panicked |-> FALSE, data |-> self, drained |-> drained]

Panicked(self) == [panicked |-> TRUE, data |-> self, drained |-> <<>>]

\* extract_rows copying the rows from..=until and leaving them in place.
extract_rows_copying(self, from, until) ==
    [Drain(self, from, until + 1) EXCEPT !.rest = self]

\* extract_rows reading from..=until as from..until.
extract_rows_exclusive(self, from, until) == Drain(self, from, until)

\* Jagged::extract_rows(from..=until): [panicked, taken, rest].
extract_rows(self, from, until) == Drain(self, from, until + 1)

\* The degenerate-range test without its start == end case.
rejected_only_reversed(start, end, start_column_out_of_bounds) ==
    Greater(start, end)

\* The degenerate-range test of extract, on the clamped start and end.
rejected(start, end, start_column_out_of_bounds) ==
    Greater(start, end) \/ (start = end /\ start_column_out_of_bounds)

\* start.col clamped to the last column of its (existing) row.
max_start_col(self, start) ==
    saturating_sub(len_col_unchecked(self, start.row), 1)

\* end clamped to the container: [end, end_column_out_of_bounds].
clamp_end(self, end) ==
    IF end.row > last_row_index(self)
    THEN [end |-> Index2(last_row_index(self),
                         last_col_index(self, last_row_index(self))),
          oob |-> TRUE]
    ELSE IF end.col > last_col_index(self, end.row)
    THEN [end |-> Index2(end.row, last_col_index(self, end.row)), oob |-> TRUE]
    ELSE [end |-> end, oob |-> FALSE]

\* The single-row case draining start.col..end.col, without the end's
\* element.
extract_single_line_exclusive(self, drained, start, end, start_oob, end_oob) ==
    LET dr == Drain(self[start.row + 1], start.col, end.col)
        self1 == [self EXCEPT ![start.row + 1] = dr.rest]
        self2 == IF start_oob
                 THEN join_lines(self1, saturating_sub(start.row, 1))
                 ELSE IF end_oob THEN join_lines(self1, start.row)
                 ELSE self1
    IN IF dr.panicked THEN Panicked(self)
       ELSE Returned(self2, drained \o <<dr.taken>>)

\* The single-row case with a split: drain start.col..=end.col of the row,
\* then re-join if a bound was out of bounds.
extract_single_line(self, drained, start, end, start_oob, end_oob) ==
    LET dr == Drain(self[start.row + 1], start.col, end.col + 1)
        self1 == [self EXCEPT ![start.row + 1] = dr.rest]
        self2 == IF start_oob
                 THEN join_lines(self1, saturating_sub(start.row, 1))
                 ELSE IF end_oob THEN join_lines(self1, start.row)
                 ELSE self1
    IN IF dr.panicked THEN Panicked(self)
       ELSE Returned(self2, drained \o <<dr.taken>>)

\* The multi-row case: the tail of the start row, the whole rows
\* extract_from..=extract_until, the head of the end row, then the join.
extract_multi_line(self, drained, start, end, start_oob, has_split_start, has_split_end, extract_from, extract_until) ==
    LET d1 == Drain(self[start.row + 1], start.col,
                    len_col_unchecked(self, start.row))
        self1 == IF has_split_start
                 THEN [self EXCEPT ![start.row + 1] = d1.rest] ELSE self
        drained1 == IF has_split_start
                    THEN drained \o <<d1.taken>> ELSE drained
        d2 == extract_rows(self1, extract_from, extract_until)
        self2 == d2.rest
        num_drained_rows == Len(d2.taken)
        drained2 == drained1 \o d2.taken
        end_index == saturating_sub(end.row, num_drained_rows)
        d3 == Drain(self2[end_index + 1], 0, end.col + 1)
        self3 == IF has_split_end
                 THEN [self2 EXCEPT ![end_index + 1] = d3.rest] ELSE self2
        drained3 == IF has_split_end
                    THEN drained2 \o <<d3.taken>> ELSE drained2
        self4 == IF has_split_start \/ start_oob
                 THEN join_lines(self3, start.row) ELSE self3
    IN IF has_split_start /\ d1.panicked THEN Panicked(self)
       ELSE IF d2.panicked THEN Panicked(self1)
       ELSE IF has_split_end /\ ~has_row(self2, end_index) THEN Panicked(self2)
       ELSE IF has_split_end /\ d3.panicked THEN Panicked(self2)
       ELSE Returned(self4, drained3)

\* Jagged::extract once the range is normalized and start.row exists.
extract_clamped(self, rb) ==
    LET start_oob == rb.start.col > max_start_col(self, rb.start)
        start == Index2(rb.start.row,
                        IF start_oob THEN max_start_col(self, rb.start)
                        ELSE rb.start.col)
        drained == IF start_oob THEN << <<>> >> ELSE <<>>
        ce == clamp_end(self, rb.end)
        end == ce.end
        has_split_start == ~(start.col = 0 /\ ~start_oob) /\ ~start_oob
        extract_from == IF start.col = 0 /\ ~start_oob
                        THEN start.row ELSE start.row + 1
        has_split_end == ~(end.col >= last_col_index(self, end.row))
        extract_until == IF has_split_end
                         THEN saturating_sub(end.row, 1) ELSE end.row
    IN IF start.row > last_row_index(self) THEN Returned(self, drained)
       ELSE IF rejected(start, end, start_oob) THEN Returned(self, <<>>)
       ELSE IF start.row = end.row /\ ~has_split_start /\ ~has_split_end
       THEN LET d == extract_rows(self, start.row, start.row)
            IN IF d.panicked THEN Panicked(self)
               ELSE Returned(d.rest, drained \o d.taken)
       ELSE IF start.row = end.row
       THEN extract_single_line(self, drained, start, end, start_oob, ce.oob)
       ELSE extract_multi_line(self, drained, start, end, start_oob,
                               has_split_start, has_split_end,
                               extract_from, extract_until)

\* Jagged::extract
extract(self, range, overflow_checks) ==
    IF is_empty(self) THEN Returned(self, <<>>)
    ELSE LET rb == range_bounds(self, range, overflow_checks)
         IN IF rb.kind = "Panic" THEN Panicked(self)
            ELSE IF rb.kind = "None" THEN Returned(self, <<>>)
            ELSE IF rb.start.row > last_row_index(self)
            THEN Returned(self, <<>>)
            ELSE extract_clamped(self, rb)

\* ------------------------------------------------------------ navigation

is_first_row(self, index) == index.row = 0 /\ ~is_empty(self)

is_last_row(self, index) ==
    ~is_empty(self) /\ index.row = saturating_sub(Len(self), 1)

is_first_col(self, index) ==
    IF has_row(self, index.row) THEN index.col = 0 ELSE FALSE

is_last_col(self, index) ==
    IF has_row(self, index.row)
    THEN index.col >= saturating_sub(len_col_unchecked(self, index.row), 1)
    ELSE FALSE

\* Option<(Option<&T>, Index2)>: [panicked, some, val, pos].
NoStep == [panicked |-> FALSE, some |-> FALSE]

StepPanic == [panicked |-> TRUE, some |-> FALSE]

Step(v, p) == [panicked |-> FALSE, some |-> TRUE, val |-> v, pos |-> p]

\* Jagged::next.  index.col + 1 overflows only for a column usize::MAX of a
\* row that does not exist (is_last_col is false there).
next(self, index, overflow_checks) ==
    IF is_last_row(self, index) /\ is_last_col(self, index) THEN NoStep
    ELSE IF is_last_col(self, index)
    THEN LET p == Index2(index.row + 1, 0) IN Step(get(self, p), p)
    ELSE IF index.col = UsizeMax /\ overflow_checks THEN StepPanic
    ELSE LET p == Index2(index.row, wrapping_add(index.col, 1))
         IN IF get(self, p).some THEN Step(get(self, p), p) ELSE NoStep

\* prev stepping to column len of the previous row instead of len - 1.
prev_to_row_len(self, index, overflow_checks) ==
    IF is_first_row(self, index) /\ is_first_col(self, index) THEN NoStep
    ELSE IF is_first_col(self, index)
    THEN LET p == Index2(index.row - 1,
                         len_col_unchecked(self, index.row - 1))
         IN Step(get(self, p), p)
    ELSE IF index.col = 0 /\ overflow_checks THEN StepPanic
    ELSE LET p == Index2(index.row,
                         IF index.col = 0 THEN UsizeMax ELSE index.col - 1)
         IN IF get(self, p).some THEN Step(get(self, p), p) ELSE NoStep

\* Jagged::prev.  index.col - 1 underflows for column 0 of a row that does
\* not exist (is_first_col is false there); wrapping gives usize::MAX.
prev(self, index, overflow_checks) ==
    IF is_first_row(self, index) /\ is_first_col(self, index) THEN NoStep
    ELSE IF is_first_col(self, index)
    THEN LET row == index.row - 1
             p == Index2(row, saturating_sub(len_col_unchecked(self, row), 1))
         IN Step(get(self, p), p)
    ELSE IF index.col = 0 /\ overflow_checks THEN StepPanic
    ELSE LET p == Index2(index.row,
                         IF index.col = 0 THEN UsizeMax ELSE index.col - 1)
         IN IF get(self, p).some THEN Step(get(self, p), p) ELSE NoStep

\* Jagged::next_mut: the navigation of next with get_mut for get.
next_mut(self, index, overflow_checks) ==
    IF is_last_row(self, index) /\ is_last_col(self, index) THEN NoStep
    ELSE IF is_last_col(self, index)
    THEN LET p == Index2(index.row + 1, 0) IN Step(get(self, p), p)
    ELSE IF index.col = UsizeMax /\ overflow_checks THEN StepPanic
    ELSE LET p == Index2(index.row, wrapping_add(index.col, 1))
         IN IF get(self, p).some THEN Step(get(self, p), p) ELSE NoStep

\* Jagged::prev_mut.  It returns Option<(&mut T, Index2)>: in the branch that
\* steps to the previous row, get_mut(index).map(..) is None when that row
\* is empty.
prev_mut(self, index, overflow_checks) ==
    IF is_first_row(self, index) /\ is_first_col(self, index) THEN NoStep
    ELSE IF is_first_col(self, index)
    THEN LET row == index.row - 1
             p == Index2(row, saturating_sub(len_col_unchecked(self, row), 1))
         IN IF get(self, p).some THEN Step(get(self, p), p) ELSE NoStep
    ELSE IF index.col = 0 /\ overflow_checks THEN StepPanic
    ELSE LET p == Index2(index.row,
                         IF index.col = 0 THEN UsizeMax ELSE index.col - 1)
         IN IF get(self, p).some THEN Step(get(self, p), p) ELSE NoStep

\* A predicate over Option<&T>: whether it accepts None, and the elements
\* it accepts.
accepts(f, value) == IF value.some THEN value.val \in f.vals ELSE f.none

\* next_predicate never testing the predicate on an absent element.
RECURSIVE next_predicate_skips_absent(_, _, _, _)
next_predicate_skips_absent(self, index, f, overflow_checks) ==
    LET n == next(self, index, overflow_checks)
    IN IF n.panicked \/ ~n.some THEN n
       ELSE IF n.val.some /\ accepts(f, n.val) THEN n
       ELSE next_predicate_skips_absent(self, n.pos, f, overflow_checks)

\* Jagged::next_predicate: the while-let loop over self.next(index).
RECURSIVE next_predicate(_, _, _, _)
next_predicate(self, index, f, overflow_checks) ==
    LET n == next(self, index, overflow_checks)
    IN IF n.panicked \/ ~n.some THEN n
       ELSE IF accepts(f, n.val) THEN n
       ELSE next_predicate(self, n.pos, f, overflow_checks)

\* Jagged::prev_predicate: the while-let loop over self.prev(index).
RECURSIVE prev_predicate(_, _, _, _)
prev_predicate(self, index, f, overflow_checks) ==
    LET n == prev(self, index, overflow_checks)
    IN IF n.panicked \/ ~n.some THEN n
       ELSE IF accepts(f, n.val) THEN n
       ELSE prev_predicate(self, n.pos, f, overflow_checks)

\* ------------------------------------------------------------ iterator

\* `usize as isize` and `isize as usize`: two's complement of UsizeBits bits.
as_isize(n) == IF n >= 2 ^ (UsizeBits - 1) THEN n - (UsizeMax + 1) ELSE n

as_usize(i) == IF i < 0 THEN i + UsizeMax + 1 ELSE i

\* JaggedIterator::new
iter == [row |-> 0, col |-> 0, has_end |-> FALSE, end |-> Index2(0, 0),
         stop |-> FALSE]

\* JaggedIterator::from (the end is reset to None)
from(self, it, index) ==
    [row |-> as_isize(index.row), col |-> index.col, has_end |-> FALSE,
     end |-> Index2(0, 0), stop |-> it.stop]

\* JaggedIterator::to
to(self, it, index) ==
    [it EXCEPT !.has_end = TRUE,
               !.end = Index2(index.row,
                              Min(index.col,
                                  IF has_row(self, index.row)
                                  THEN len_col_unchecked(self, index.row)
                                  ELSE 0))]

\* Iterator::next without the test of the current position against the
\* container.
iter_next_unchecked(self, it) ==
    LET current_index == Index2(as_usize(it.row), it.col)
        n == next(self, current_index, FALSE)
        moved == IF n.some
                 THEN [it EXCEPT !.row = as_isize(n.pos.row), !.col = n.pos.col]
                 ELSE [it EXCEPT !.stop = TRUE]
        it1 == IF it.has_end /\ current_index = it.end
               THEN [moved EXCEPT !.stop = TRUE] ELSE moved
    IN IF it.stop
       THEN [some |-> FALSE, it |-> it]
       ELSE [some |-> TRUE, val |-> get(self, current_index),
             pos |-> current_index, it |-> it1]

\* Iterator::next without the test against the configured end.
iter_next_ignoring_end(self, it) ==
    LET current_index == Index2(as_usize(it.row), it.col)
        n == next(self, current_index, TRUE)
        moved == IF n.some
                 THEN [it EXCEPT !.row = as_isize(n.pos.row), !.col = n.pos.col]
                 ELSE [it EXCEPT !.stop = TRUE]
    IN IF it.stop \/ out_of_bounds(current_index, self)
       THEN [some |-> FALSE, it |-> it]
       ELSE [some |-> TRUE, val |-> get(self, current_index),
             pos |-> current_index, it |-> moved]

\* Iterator::next for JaggedIterator: [some, val, pos, it].  data.next is
\* called on an in-bounds position only, where it cannot overflow.
iter_next(self, it) ==
    LET current_index == Index2(as_usize(it.row), it.col)
        n == next(self, current_index, TRUE)
        moved == IF n.some
                 THEN [it EXCEPT !.row = as_isize(n.pos.row), !.col = n.pos.col]
                 ELSE [it EXCEPT !.stop = TRUE]
        it1 == IF it.has_end /\ current_index = it.end
               THEN [moved EXCEPT !.stop = TRUE] ELSE moved
    IN IF it.stop \/ out_of_bounds(current_index, self)
       THEN [some |-> FALSE, it |-> it]
       ELSE [some |-> TRUE, val |-> get(self, current_index),
             pos |-> current_index, it |-> it1]

\* DoubleEndedIterator::next_back for JaggedIterator: [panicked, some, val,
\* pos, it].  The current position is not tested against the container, and
\* data.prev is called on it whatever it is.
iter_next_back(self, it, overflow_checks) ==
    LET current_index == Index2(as_usize(it.row), it.col)
        n == prev(self, current_index, overflow_checks)
        moved == IF n.some
                 THEN [it EXCEPT !.row = as_isize(n.pos.row), !.col = n.pos.col]
                 ELSE [it EXCEPT !.stop = TRUE]
        it1 == IF it.has_end /\ current_index = it.end
               THEN [moved EXCEPT !.stop = TRUE] ELSE moved
    IN IF it.stop \/ it.row < 0
       THEN [panicked |-> FALSE, some |-> FALSE, it |-> it]
       ELSE IF n.panicked
       THEN [panicked |-> TRUE, some |-> FALSE, it |-> it]
       ELSE [panicked |-> FALSE, some |-> TRUE,
             val |-> get(self, current_index), pos |-> current_index,
             it |-> it1]

\* A yielded pair (Option<&T>, Index2).
Item(value, index) == [val |-> value, pos |-> index]

\* iterator.by_ref().collect::<Vec<_>>(): next is called until it returns
\* None.  fuel bounds the number of calls; finished tells whether None was
\* returned before it ran out.
RECURSIVE items_from(_, _, _, _)
items_from(self, it, items, fuel) ==
    LET item == iter_next(self, it)
    IN IF ~item.some
       THEN [finished |-> TRUE, panicked |-> FALSE, items |-> items,
             it |-> item.it]
       ELSE IF fuel = 0
       THEN [finished |-> FALSE, panicked |-> FALSE, items |-> items,
             it |-> it]
       ELSE items_from(self, item.it,
                       Append(items, Item(item.val, item.pos)), fuel - 1)

\* iterator.by_ref().rev().collect::<Vec<_>>(): next_back until None.
RECURSIVE items_back_from(_, _, _, _, _)
items_back_from(self, it, items, fuel, overflow_checks) ==
    LET item == iter_next_back(self, it, overflow_checks)
    IN IF item.panicked
       THEN [finished |-> FALSE, panicked |-> TRUE, items |-> items,
             it |-> it]
       ELSE IF ~item.some
       THEN [finished |-> TRUE, panicked |-> FALSE, items |-> items,
             it |-> item.it]
       ELSE IF fuel = 0
       THEN [finished |-> FALSE, panicked |-> FALSE, items |-> items,
             it |-> it]
       ELSE items_back_from(self, item.it,
                            Append(items, Item(item.val, item.pos)),
                            fuel - 1, overflow_checks)

\* T::push_into: push an element onto the last row, if there is one.
push_element(self, v) ==
    IF has_row(self, saturating_sub(len(self), 1))
    THEN [self EXCEPT ![Len(self)] = Append(@, v)]
    ELSE self

\* Vec<T>::push_into: push a row.
push_row(self, row) == Append(self, row)

\* from_iter starting a row for every pair.
from_iter_step_row_per_pair(acc, value, index) ==
    LET rows == push_row(acc.result, <<>>)
    IN [result |-> IF value.some THEN push_element(rows, value.val) ELSE rows,
        current_row |-> index.row]

\* from_iter starting a row only when the row index changes, not for the
\* first pair.
from_iter_step_no_first_row(acc, value, index) ==
    LET fresh == index.row # acc.current_row
        rows == IF fresh THEN push_row(acc.result, <<>>) ELSE acc.result
    IN [result |-> IF value.some THEN push_element(rows, value.val) ELSE rows,
        current_row |-> IF fresh THEN index.row ELSE acc.current_row]

\* One turn of the loop of FromIterator::from_iter: acc is
\* [result, current_row].
from_iter_step(acc, value, index) ==
    LET fresh == is_empty(acc.result) \/ index.row # acc.current_row
        rows == IF fresh THEN push_row(acc.result, <<>>) ELSE acc.result
    IN [result |-> IF value.some THEN push_element(rows, value.val) ELSE rows,
        current_row |-> IF fresh THEN index.row ELSE acc.current_row]

\* iterator.collect::<Jagged<T>>(): from_iter over the forward traversal.
RECURSIVE collect_from(_, _, _)
collect_from(self, it, acc) ==
    LET item == iter_next(self, it)
    IN IF ~item.some THEN acc.result
       ELSE collect_from(self, item.it, from_iter_step(acc, item.val, item.pos))

collect(self, it) == collect_from(self, it, [result |-> <<>>, current_row |-> 0])

\* ------------------------------------------------------------ copy_range

\* Jagged::copy_range
copy_range(self, range, overflow_checks) ==
    LET rb == range_bounds(self, range, overflow_checks)
        start_oob == rb.start.col > last_col_index(self, rb.start.row)
        start == IF start_oob
                 THEN Index2(IF rb.start.row = UsizeMax THEN UsizeMax
                             ELSE rb.start.row + 1, 0)
                 ELSE rb.start
        copied0 == IF start_oob THEN << <<>> >> ELSE <<>>
        append_newline_at_the_end ==
            rb.end.col > last_col_index(self, rb.end.row)
        end == IF append_newline_at_the_end
               THEN Index2(rb.end.row, last_col_index(self, rb.end.row))
               ELSE rb.end
        copied1 == append(copied0, collect(self, to(self, from(self, iter, start), end)))
    IN IF rb.kind = "Panic" THEN [panicked |-> TRUE, copied |-> <<>>]
       ELSE IF rb.kind = "None" THEN [panicked |-> FALSE, copied |-> <<>>]
       ELSE [panicked |-> FALSE,
             copied |-> IF append_newline_at_the_end
                        THEN push_row(copied1, <<>>) ELSE copied1]

\* ------------------------------------------------------------ editing

\* The outcome of a mutating call: the container afterwards and what the
\* call returned, or a panic and the container as the panic left it.
Ok(self, value) == [panicked |-> FALSE, data |-> self, value |-> value]

Panic(self) == [panicked |-> TRUE, data |-> self, value |-> <<>>]

\* split_off cutting between rows only, whatever the column.
split_off_rows_only(self, at) ==
    IF at.row > Len(self) THEN Panic(self)
    ELSE Ok(SubSeq(self, 1, at.row), SubSeq(self, at.row + 1, Len(self)))

\* Jagged::split_off.  Vec::split_off(at) panics for at > len, Vec::remove
\* for an index >= len; the row is already taken out of self.data when
\* lines.split_off(at.col) panics.
split_off(self, at) ==
    IF at.col = 0
    THEN IF at.row > Len(self) THEN Panic(self)
         ELSE Ok(SubSeq(self, 1, at.row), SubSeq(self, at.row + 1, Len(self)))
    ELSE IF at.row >= Len(self) THEN Panic(self)
    ELSE LET lines == self[at.row + 1]
             removed == SubSeq(self, 1, at.row)
                            \o SubSeq(self, at.row + 2, Len(self))
         IN IF at.col > Len(lines) THEN Panic(removed)
            ELSE Ok(SubSeq(self, 1, at.row) \o <<SubSeq(lines, 1, at.col)>>,
                    <<SubSeq(lines, at.col + 1, Len(lines))>>
                        \o SubSeq(self, at.row + 2, Len(self)))

\* merge that appends the rows of other without fusing the boundary rows.
merge_without_fusing(self, other) ==
    [self |-> append(self, other), other |-> <<>>]

\* Jagged::merge: [self, other] after self.merge(&mut other).
merge(self, other) ==
    IF is_empty(other) THEN [self |-> self, other |-> other]
    ELSE LET last_row == last_row_index(self)
         IN IF ~is_empty(self)
            THEN [self |-> append([self EXCEPT ![last_row + 1] = @ \o Head(other)],
                                  Tail(other)),
                  other |-> <<>>]
            ELSE [self |-> append(self, other), other |-> <<>>]

\* Jagged::join_lines for every row_index.  row_index + 1 overflows at
\* usize::MAX: a panic with overflow checks; without them the sum wraps to 0,
\* so a non-empty container loses row 0 to self.data.remove(0) and then
\* panics on self.data[usize::MAX].
join_lines_usize(self, row_index, overflow_checks) ==
    IF row_index = UsizeMax
    THEN IF overflow_checks THEN Panic(self)
         ELSE IF wrapping_add(row_index, 1) >= len(self) THEN Ok(self, <<>>)
         ELSE Panic(Tail(self))
    ELSE Ok(join_lines(self, row_index), <<>>)

\* Jagged::truncate.  index.row + 1 overflows at usize::MAX: a panic with
\* overflow checks, self.data.truncate(0) without them.
truncate(self, index, overflow_checks) ==
    LET cut == IF has_row(self, index.row)
               THEN [self EXCEPT ![index.row + 1] =
                         SubSeq(@, 1, Min(index.col, Len(@)))]
               ELSE self
    IN IF index.row = UsizeMax /\ overflow_checks THEN Panic(cut)
       ELSE Ok(SubSeq(cut, 1, Min(wrapping_add(index.row, 1), Len(cut))), <<>>)

\* remove returning normally, with nothing removed, on a missing target.
remove_Index2_silent(self, index) ==
    IF index.row >= Len(self) THEN Ok(self, <<>>)
    ELSE IF index.col >= Len(self[index.row + 1]) THEN Ok(self, <<>>)
    ELSE LET row == self[index.row + 1]
         IN Ok([self EXCEPT ![index.row + 1] =
                    SubSeq(row, 1, index.col)
                        \o SubSeq(row, index.col + 2, Len(row))],
               row[index.col + 1])

\* JaggedRemove for Index2: array.data[self.row].remove(self.col)
remove_Index2(self, index) ==
    IF index.row >= Len(self) THEN Panic(self)
    ELSE IF index.col >= Len(self[index.row + 1]) THEN Panic(self)
    ELSE LET row == self[index.row + 1]
         IN Ok([self EXCEPT ![index.row + 1] =
                    SubSeq(row, 1, index.col)
                        \o SubSeq(row, index.col + 2, Len(row))],
               row[index.col + 1])

\* JaggedRemove for RowIndex: array.data.remove(self.0)
remove_RowIndex(self, index) ==
    IF index >= Len(self) THEN Panic(self)
    ELSE Ok(SubSeq(self, 1, index) \o SubSeq(self, index + 2, Len(self)),
            self[index + 1])

\* JaggedSlice for T, insert_into: Vec::insert panics for an index > len.
insert_into_T(self, index, v) ==
    IF ~has_row(self, index.row) THEN Ok(self, <<>>)
    ELSE LET line == self[index.row + 1]
         IN IF index.col > Len(line) THEN Panic(self)
            ELSE Ok([self EXCEPT ![index.row + 1] =
                         SubSeq(line, 1, index.col) \o <<v>>
                             \o SubSeq(line, index.col + 1, Len(line))],
                    <<>>)

\* JaggedSlice for Vec<T> and for RowSlice<T>, insert_into.
insert_into_Vec(self, index, row) ==
    IF index > Len(self) THEN Panic(self)
    ELSE Ok(SubSeq(self, 1, index) \o <<row>>
                \o SubSeq(self, index + 1, Len(self)),
            <<>>)

\* ------------------------------------------------------------ text

\* A line without the carriage return that str::lines drops from the end of
\* a line terminated by "\r\n".
strip_carriage_return(line) ==
    IF line # <<>> /\ line[Len(line)] = "\r"
    THEN SubSeq(line, 1, Len(line) - 1) ELSE line

\* str::lines over the rest of a text, current being the line read so far:
\* lines end at "\n" or "\r\n", the terminator is not part of the line, and
\* a last line without terminator counts when it is not empty.
RECURSIVE lines_from(_, _)
lines_from(text, current) ==
    IF text = <<>> THEN IF current = <<>> THEN <<>> ELSE <<current>>
    ELSE IF Head(text) = "\n"
    THEN <<strip_carriage_return(current)>> \o lines_from(Tail(text), <<>>)
    ELSE lines_from(Tail(text), Append(current, Head(text)))

lines(text) == lines_from(text, <<>>)

\* from_text without the extra row for a final newline.
from_text_lines_only(text) == lines(text)

\* impl From<T: AsRef<str>> for Jagged<char>
from_text(text) ==
    IF text # <<>> /\ text[Len(text)] = "\n"
    THEN push_row(lines(text), <<>>) ELSE lines(text)

\* Lines::to_string: the rows joined by "\n".
RECURSIVE to_string(_)
to_string(self) ==
    IF self = <<>> THEN <<>>
    ELSE IF Len(self) = 1 THEN Head(self)
    ELSE Head(self) \o <<"\n">> \o to_string(Tail(self))

\* Jagged::flatten over the rows from row i (0-based) on.  The test
\* i < self.data.len() - 1 is only reached when there is a row.
RECURSIVE flatten_from(_, _, _)
flatten_from(self, line_break, i) ==
    IF i >= Len(self) THEN <<>>
    ELSE self[i + 1]
             \o (IF i < Len(self) - 1 /\ line_break.some
                 THEN <<line_break.val>> ELSE <<>>)
             \o flatten_from(self, line_break, i + 1)

flatten(self, line_break) == flatten_from(self, line_break, 0)

\* impl From<Jagged<char>> for String
string_from(self) == flatten(self, Some("\n"))

\* ------------------------------------------------------- pattern search

wrapping_sub(a, b) == (a - b + UsizeMax + 1) % (UsizeMax + 1)

\* MatchIndices::match_found: the window equals the pattern.
match_found(pattern, other) ==
    /\ Len(pattern) = Len(other)
    /\ \A i \in 1..Len(pattern) : pattern[i] = other[i]

\* Resuming at the last element of the match instead of after it.
next_start_index_at_match(self, index) == Some(index)

\* The start index for the next call after a match ending at index:
\* self.data.next(index).map(|(_, index)| index).
next_start_index(self, index) ==
    LET n == next(self, index, TRUE)
    IN IF n.some THEN Some(n.pos) ELSE None

\* The reported position taken pattern_len columns back instead of
\* pattern_len - 1.
match_start_full_length(index, pattern_len) ==
    Index2(index.row, wrapping_sub(index.col, pattern_len))

\* Reporting the position of the last element of the match.
match_start_at_last(index, pattern_len) == index

\* The reported position of a match ending at index:
\* index.col -= pattern_len.saturating_sub(1), wrapped.
match_start(index, pattern_len) ==
    Index2(index.row, wrapping_sub(index.col, saturating_sub(pattern_len, 1)))

\* Whether that subtraction underflows.
match_start_underflows(index, pattern_len) ==
    index.col < saturating_sub(pattern_len, 1)

NoMatch == [some |-> FALSE]

\* The window carried across the start of a row.
keep_at_row_start(index, sequence_buffer) == sequence_buffer

\* The window before an element at index is pushed: emptied at column 0
\* (if index.col == 0 { sequence_buffer.clear() }).
clear_at_row_start(index, sequence_buffer) ==
    IF index.col = 0 THEN <<>> ELSE sequence_buffer

\* The for loop of MatchIndices::next over the remaining (value, index)
\* pairs, with the window built so far.
RECURSIVE match_scan(_, _, _, _)
match_scan(self, pattern, it, sequence_buffer) ==
    LET n == iter_next(self, it)
        cleared == clear_at_row_start(n.pos, sequence_buffer)
        popped == IF Len(cleared) >= Len(pattern) THEN Tail(cleared)
                  ELSE cleared
        pushed == Append(popped, n.val.val)
    IN IF ~n.some THEN NoMatch
       ELSE IF ~n.val.some THEN match_scan(self, pattern, n.it, sequence_buffer)
       ELSE IF match_found(pattern, pushed)
       THEN [some |-> TRUE,
             start_index |-> next_start_index(self, n.pos),
             underflows |-> match_start_underflows(n.pos, Len(pattern)),
             pos |-> match_start(n.pos, Len(pattern))]
       ELSE match_scan(self, pattern, n.it, pushed)

\* Iterator::next for MatchIndices, from the stored start index.
match_next(self, pattern, start_index) ==
    IF is_empty(self) \/ pattern = <<>> THEN NoMatch
    ELSE IF ~start_index.some THEN NoMatch
    ELSE match_scan(self, pattern, from(self, iter, start_index.val), <<>>)

\* ------------------------------------------------------------ inputs

\* Row lengths of the containers under test.
Shapes == UNION {[1..n -> 0..MaxCols] : n \in 0..MaxRows}

\* The container of a shape.  The structural operations never compare or
\* inspect elements, so every element gets its own value: what an operation
\* does to an element is then visible in where that value ends up.
Label(r, c) == (r - 1) * (MaxCols + 1) + c

Fill(lens) == [r \in 1..Len(lens) |-> [c \in 1..lens[r] |-> Label(r, c)]]

Containers == {Fill(lens) : lens \in Shapes}

\* Coordinates: every row and column a container under test can have, and
\* usize::MAX for the far out-of-bounds ones.
RowCoords == (0..(MaxRows - 1)) \cup {UsizeMax}

ColCoords == (0..MaxCols) \cup {UsizeMax}

Positions == {Index2(r, c) : r \in RowCoords, c \in ColCoords}

Bounds == {Unbounded} \cup {Included(p) : p \in Positions}
              \cup {Excluded(p) : p \in Positions}

Ranges == {Range(s, e) : s \in Bounds, e \in Bounds}

NoArg == [kind |-> "none"]

NoCursor == [kind |-> "none"]

\* ------------------------------------------------------------ actions

Init ==
    /\ data \in Containers
    /\ old = data
    /\ op = "new"
    /\ arg = NoArg
    /\ result = <<>>
    /\ panicked = FALSE
    /\ cursor = NoCursor

\* The builds whose outcome a call on range can differ in: overflow checks
\* (debug, cargo fuzz) or wrapping (release) matter only when an addition
\* overflows, which only an excluded start at column usize::MAX causes.
Builds(range) ==
    IF range.start.kind = "Excluded" /\ range.start.val.col = UsizeMax
    THEN BOOLEAN ELSE {TRUE}

\* let drained = data.extract(range);
Extract ==
    /\ op = "new"
    /\ \E range \in Ranges :
       \E overflow_checks \in Builds(range) :
       \E r \in {extract(data, range, overflow_checks)} :
          /\ data' = r.data
          /\ result' = r.drained
          /\ panicked' = r.panicked
          /\ arg' = range
    /\ old' = data
    /\ op' = "extract"
    /\ UNCHANGED cursor

\* data.append(&mut drained) after let mut drained = data.extract(..): the
\* round trip of a full-range extraction.
AppendBack ==
    /\ op = "extract"
    /\ ~panicked
    /\ arg = Range(Unbounded, Unbounded)
    /\ data' = append(data, result)
    /\ result' = <<>>
    /\ op' = "append"
    /\ UNCHANGED <<old, arg, panicked, cursor>>

\* let copied = data.copy_range(range);  (copy_range takes &self)
CopyRange ==
    /\ op = "new"
    /\ \E range \in Ranges :
       \E overflow_checks \in Builds(range) :
       \E r \in {copy_range(data, range, overflow_checks)} :
          /\ result' = r.copied
          /\ panicked' = r.panicked
          /\ arg' = range
    /\ old' = data
    /\ op' = "copy_range"
    /\ UNCHANGED <<data, cursor>>

\* A second data.copy_range(..) after a first one over the full range; result
\* becomes the pair <<first result, second result>>.
CopyRangeAgain ==
    /\ op = "copy_range"
    /\ ~panicked
    /\ arg = Range(Unbounded, Unbounded)
    /\ \E overflow_checks \in Builds(arg) :
       \E r \in {copy_range(data, arg, overflow_checks)} :
          /\ result' = <<result, r.copied>>
          /\ panicked' = r.panicked
    /\ op' = "copy_range_again"
    /\ UNCHANGED <<data, old, arg, cursor>>

\* (p.out_of_bounds(&data), data.get(p))
Lookup ==
    /\ op = "new"
    /\ \E p \in Positions :
          /\ arg' = p
          /\ result' = [out_of_bounds |-> out_of_bounds(p, data),
                        get |-> get(data, p)]
    /\ op' = "lookup"
    /\ panicked' = FALSE
    /\ UNCHANGED <<data, old, cursor>>

\* The builds whose outcome a single step from p can differ in.
StepBuilds(p) == IF p.col = UsizeMax \/ p.col = 0 THEN BOOLEAN ELSE {TRUE}

\* data.next(p)
NextStep ==
    /\ op = "new"
    /\ \E p \in Positions :
       \E overflow_checks \in StepBuilds(p) :
       \E r \in {next(data, p, overflow_checks)} :
          /\ arg' = p
          /\ result' = r
          /\ panicked' = r.panicked
    /\ op' = "next"
    /\ UNCHANGED <<data, old, cursor>>

\* data.prev(p)
PrevStep ==
    /\ op = "new"
    /\ \E p \in Positions :
       \E overflow_checks \in StepBuilds(p) :
       \E r \in {prev(data, p, overflow_checks)} :
          /\ arg' = p
          /\ result' = r
          /\ panicked' = r.panicked
    /\ op' = "prev"
    /\ UNCHANGED <<data, old, cursor>>

\* data.prev(q) for the position q that data.next(p) reported.
PrevOfNext ==
    /\ op = "next"
    /\ result.some
    /\ \E overflow_checks \in StepBuilds(result.pos) :
       \E r \in {prev(data, result.pos, overflow_checks)} :
          /\ result' = r
          /\ panicked' = r.panicked
    /\ op' = "next_prev"
    /\ UNCHANGED <<data, old, arg, cursor>>

\* data.next(q) for the position q that data.prev(p) reported.
NextOfPrev ==
    /\ op = "prev"
    /\ result.some
    /\ \E overflow_checks \in StepBuilds(result.pos) :
       \E r \in {next(data, result.pos, overflow_checks)} :
          /\ result' = r
          /\ panicked' = r.panicked
    /\ op' = "prev_next"
    /\ UNCHANGED <<data, old, arg, cursor>>

Next ==
    \/ Extract
    \/ AppendBack
    \/ Lookup
    \/ NextStep
    \/ PrevStep
    \/ PrevOfNext
    \/ NextOfPrev

Spec == Init /\ [][Next]_vars

\* The copying operations on their own.
NextCopy ==
    \/ CopyRange
    \/ CopyRangeAgain

SpecCopy == Init /\ [][NextCopy]_vars

\* ---------------------------------------------------- editing, as a system

\* A second container, with elements of its own.
Others ==
    {[r \in 1..Len(lens) |-> [c \in 1..lens[r] |-> Label(MaxRows + r, c)]] :
        lens \in Shapes}

\* An element and the rows that are pushed or inserted.
NewElement == Label(2 * MaxRows + 1, 0)

NewRows == {<<>>, <<NewElement>>, <<NewElement, NewElement + 1>>}

\* The builds whose outcome a call with this row index can differ in.
RowBuilds(row) == IF row = UsizeMax THEN BOOLEAN ELSE {TRUE}

\* let rest = data.split_off(at);
SplitOff ==
    /\ op = "new"
    /\ \E at \in Positions : \E r \in {split_off(data, at)} :
          /\ data' = r.data
          /\ result' = r.value
          /\ panicked' = r.panicked
          /\ arg' = at
    /\ old' = data
    /\ op' = "split_off"
    /\ UNCHANGED cursor

\* After let mut rest = data.split_off(at): data.append(&mut rest) when
\* at.col == 0, data.merge(&mut rest) otherwise.
Reattach ==
    /\ op = "split_off"
    /\ ~panicked
    /\ \E m \in {IF arg.col = 0
                 THEN [self |-> append(data, result), other |-> <<>>]
                 ELSE merge(data, result)} :
          /\ data' = m.self
          /\ result' = m.other
    /\ op' = "reattach"
    /\ UNCHANGED <<old, arg, panicked, cursor>>

\* data.merge(&mut other); result is other afterwards.
Merge ==
    /\ op = "new"
    /\ \E other \in Others : \E m \in {merge(data, other)} :
          /\ data' = m.self
          /\ result' = m.other
          /\ arg' = other
    /\ old' = data
    /\ op' = "merge"
    /\ panicked' = FALSE
    /\ UNCHANGED cursor

\* data.append(&mut other); result is other afterwards.
AppendOther ==
    /\ op = "new"
    /\ \E other \in Others :
          /\ data' = append(data, other)
          /\ arg' = other
    /\ result' = <<>>
    /\ old' = data
    /\ op' = "append_other"
    /\ panicked' = FALSE
    /\ UNCHANGED cursor

\* data.join_lines(row_index);
JoinLines ==
    /\ op = "new"
    /\ \E row_index \in RowCoords : \E overflow_checks \in RowBuilds(row_index) :
       \E r \in {join_lines_usize(data, row_index, overflow_checks)} :
          /\ data' = r.data
          /\ panicked' = r.panicked
          /\ arg' = row_index
    /\ result' = <<>>
    /\ old' = data
    /\ op' = "join_lines"
    /\ UNCHANGED cursor

\* data.truncate(index);
Truncate ==
    /\ op = "new"
    /\ \E index \in Positions : \E overflow_checks \in RowBuilds(index.row) :
       \E r \in {truncate(data, index, overflow_checks)} :
          /\ data' = r.data
          /\ panicked' = r.panicked
          /\ arg' = index
    /\ result' = <<>>
    /\ old' = data
    /\ op' = "truncate"
    /\ UNCHANGED cursor

\* A second data.truncate(index) with the same index; result keeps the
\* container as the first call left it.
TruncateAgain ==
    /\ op = "truncate"
    /\ ~panicked
    /\ \E overflow_checks \in RowBuilds(arg.row) :
       \E r \in {truncate(data, arg, overflow_checks)} :
          /\ data' = r.data
          /\ panicked' = r.panicked
    /\ result' = data
    /\ op' = "truncate_again"
    /\ UNCHANGED <<old, arg, cursor>>

\* let removed = data.remove(index);  with an Index2
RemoveElement ==
    /\ op = "new"
    /\ \E index \in Positions : \E r \in {remove_Index2(data, index)} :
          /\ data' = r.data
          /\ result' = r.value
          /\ panicked' = r.panicked
          /\ arg' = index
    /\ old' = data
    /\ op' = "remove"
    /\ UNCHANGED cursor

\* let removed = data.remove(RowIndex::new(index));
RemoveRow ==
    /\ op = "new"
    /\ \E index \in RowCoords : \E r \in {remove_RowIndex(data, index)} :
          /\ data' = r.data
          /\ result' = r.value
          /\ panicked' = r.panicked
          /\ arg' = index
    /\ old' = data
    /\ op' = "remove_row"
    /\ UNCHANGED cursor

\* data.push(element);
PushElement ==
    /\ op = "new"
    /\ data' = push_element(data, NewElement)
    /\ arg' = NewElement
    /\ result' = <<>>
    /\ old' = data
    /\ op' = "push"
    /\ panicked' = FALSE
    /\ UNCHANGED cursor

\* data.push(row);  with a Vec<T> or a RowSlice<T>
PushRow ==
    /\ op = "new"
    /\ \E row \in NewRows :
          /\ data' = push_row(data, row)
          /\ arg' = row
    /\ result' = <<>>
    /\ old' = data
    /\ op' = "push_row"
    /\ panicked' = FALSE
    /\ UNCHANGED cursor

\* data.insert(index, element);
InsertElement ==
    /\ op = "new"
    /\ \E index \in Positions : \E r \in {insert_into_T(data, index, NewElement)} :
          /\ data' = r.data
          /\ panicked' = r.panicked
          /\ arg' = index
    /\ result' = <<>>
    /\ old' = data
    /\ op' = "insert"
    /\ UNCHANGED cursor

\* data.insert(RowIndex::new(index), row);
InsertRow ==
    /\ op = "new"
    /\ \E index \in RowCoords : \E row \in NewRows :
       \E r \in {insert_into_Vec(data, index, row)} :
          /\ data' = r.data
          /\ panicked' = r.panicked
          /\ arg' = [index |-> index, row |-> row]
    /\ result' = <<>>
    /\ old' = data
    /\ op' = "insert_row"
    /\ UNCHANGED cursor

\* let collected: Jagged<T> = data.iter().collect();
Collect ==
    /\ op = "new"
    /\ result' = collect(data, iter)
    /\ arg' = NoArg
    /\ old' = data
    /\ op' = "collect"
    /\ panicked' = FALSE
    /\ UNCHANGED <<data, cursor>>

NextEdit ==
    \/ SplitOff
    \/ Reattach
    \/ Merge
    \/ AppendOther
    \/ JoinLines
    \/ Truncate
    \/ TruncateAgain
    \/ RemoveElement
    \/ RemoveRow
    \/ PushElement
    \/ PushRow
    \/ InsertElement
    \/ InsertRow
    \/ Collect

SpecEdit == Init /\ [][NextEdit]_vars

\* ------------------------------------------------------ text, as a system

\* Longest text converted.
MaxText == 5

\* Two ordinary characters, the newline and the carriage return.
Characters == {"a", "b", "\n", "\r"}

\* A text to convert, in arg.
InitText ==
    /\ arg \in UNION {[1..n -> Characters] : n \in 0..MaxText}
    /\ data = <<>>
    /\ old = <<>>
    /\ op = "text"
    /\ result = <<>>
    /\ panicked = FALSE
    /\ cursor = NoCursor

\* let data = Jagged::from(text);
FromText ==
    /\ op = "text"
    /\ data' = from_text(arg)
    /\ op' = "from_text"
    /\ UNCHANGED <<old, arg, result, panicked, cursor>>

\* let back = data.to_string();
ToText ==
    /\ op = "from_text"
    /\ result' = to_string(data)
    /\ op' = "to_string"
    /\ UNCHANGED <<data, old, arg, panicked, cursor>>

\* let back: String = data.into();
IntoString ==
    /\ op = "from_text"
    /\ result' = string_from(data)
    /\ op' = "string_from"
    /\ UNCHANGED <<data, old, arg, panicked, cursor>>

NextText ==
    \/ FromText
    \/ ToText
    \/ IntoString

SpecText == InitText /\ [][NextText]_vars

\* ------------------------------------------- pattern search, as a system

\* Most rows of a container searched.
MatchRows == 3
\* Most elements, over all rows, of a container searched.
MatchCells == 4
\* Longest pattern searched for.
MaxPattern == 2

Alphabet == {"a", "b"}

Words(n) == UNION {[1..k -> Alphabet] : k \in 0..n}

RECURSIVE Sum(_)
Sum(lens) == IF lens = <<>> THEN 0 ELSE Head(lens) + Sum(Tail(lens))

\* Row lengths of at most MatchRows rows with at most MatchCells elements
\* in all.
MatchShapes ==
    {lens \in UNION {[1..k -> 0..MatchCells] : k \in 0..MatchRows} :
        Sum(lens) <= MatchCells}

\* The rows of the given lengths, filled in row-major order from word.
Rows(lens, word) ==
    [r \in 1..Len(lens) |->
        SubSeq(word, Sum(SubSeq(lens, 1, r - 1)) + 1, Sum(SubSeq(lens, 1, r)))]

\* Jagged::match_indices on some container with some pattern.
InitMatch ==
    /\ \E lens \in MatchShapes : \E word \in [1..Sum(lens) -> Alphabet] :
          data = Rows(lens, word)
    /\ old = data
    /\ arg \in Words(MaxPattern)
    /\ cursor = Some(Index2(0, 0))
    /\ result = <<>>
    /\ op = "match_indices"
    /\ panicked = FALSE

\* One call of next on the MatchIndices iterator; the calls go on until it
\* has returned None twice.
MatchNext ==
    /\ op \in {"match_indices", "match_none"}
    /\ \E r \in {match_next(data, arg, cursor)} :
       \E overflow_checks \in IF r.some /\ r.underflows THEN BOOLEAN ELSE {TRUE} :
          /\ cursor' = IF r.some THEN r.start_index ELSE cursor
          /\ panicked' = (r.some /\ r.underflows /\ overflow_checks)
          /\ result' = IF r.some /\ ~panicked' THEN Append(result, r.pos)
                       ELSE result
          /\ op' = IF panicked' THEN "match_panicked"
                   ELSE IF r.some THEN op
                   ELSE IF op = "match_indices" THEN "match_none"
                   ELSE "match_fused"
    /\ UNCHANGED <<data, old, arg>>

NextMatch == MatchNext

SpecMatch == InitMatch /\ [][NextMatch]_vars

\* --------------------------------------------------- traversal, as a system

\* The number of elements of a container.
Cells(self) == Sum([r \in 1..Len(self) |-> Len(self[r])])

\* More calls than a container has positions to yield.
Fuel(self) == Cells(self) + Len(self) + 2

\* The end of a traversal: None, or Some(e) for .to(e).
Ends == {None} \cup {Some(p) : p \in Positions}

\* data.iter().from(s), followed by .to(e) if an end is given.
Configured(self, s, e) ==
    IF e.some THEN to(self, from(self, iter, s), e.val)
    ELSE from(self, iter, s)

\* let mut it = data.iter().from(s).to(e);
\* let items: Vec<_> = it.by_ref().collect();
Forward ==
    /\ op = "new"
    /\ \E s \in Positions :
       \E e \in Ends :
       \E r \in {items_from(data, Configured(data, s, e), <<>>, Fuel(data))} :
          /\ arg' = [from |-> s, to |-> e]
          /\ result' = r.items
          /\ cursor' = [it |-> r.it, finished |-> r.finished]
    /\ panicked' = FALSE
    /\ op' = "forward"
    /\ UNCHANGED <<data, old>>

\* it.next() once more, after it returned None.
ForwardAgain ==
    /\ op = "forward"
    /\ cursor.finished
    /\ \E item \in {iter_next(data, cursor.it)} :
          /\ cursor' = [it |-> item.it, finished |-> ~item.some,
                        before |-> cursor.it]
          /\ result' = IF item.some
                       THEN Append(result, Item(item.val, item.pos))
                       ELSE result
    /\ op' = "forward_again"
    /\ UNCHANGED <<data, old, arg, panicked>>

\* let items: Vec<_> = data.iter().from(s).rev().collect();
Reverse ==
    /\ op = "new"
    /\ \E s \in Positions :
       \E overflow_checks \in BOOLEAN :
       \E r \in {items_back_from(data, from(data, iter, s), <<>>, Fuel(data),
                                 overflow_checks)} :
          /\ arg' = [from |-> s, overflow_checks |-> overflow_checks]
          /\ result' = r.items
          /\ cursor' = [it |-> r.it, finished |-> r.finished]
          /\ panicked' = r.panicked
    /\ op' = "reverse"
    /\ UNCHANGED <<data, old>>

NextIter ==
    \/ Forward
    \/ ForwardAgain
    \/ Reverse

SpecIter == Init /\ [][NextIter]_vars

\* ------------------------------------------- predicate search, as a system

\* The elements of a container.
Elements(self) == UNION {{self[r][c] : c \in 1..Len(self[r])} : r \in 1..Len(self)}

\* The predicates under test: accepting an absent element or not, and
\* accepting no element, every element or one element of the container.
Predicates(self) ==
    {[none |-> n, vals |-> v] :
        n \in BOOLEAN,
        v \in {{}, Elements(self)} \cup {{x} : x \in Elements(self)}}

\* data.next_predicate(p, f)
NextPredicate ==
    /\ op = "new"
    /\ \E p \in Positions :
       \E f \in Predicates(data) :
       \E overflow_checks \in StepBuilds(p) :
       \E r \in {next_predicate(data, p, f, overflow_checks)} :
          /\ arg' = [index |-> p, f |-> f]
          /\ result' = r
          /\ panicked' = r.panicked
    /\ op' = "next_predicate"
    /\ UNCHANGED <<data, old, cursor>>

\* data.prev_predicate(p, f)
PrevPredicate ==
    /\ op = "new"
    /\ \E p \in Positions :
       \E f \in Predicates(data) :
       \E overflow_checks \in StepBuilds(p) :
       \E r \in {prev_predicate(data, p, f, overflow_checks)} :
          /\ arg' = [index |-> p, f |-> f]
          /\ result' = r
          /\ panicked' = r.panicked
    /\ op' = "prev_predicate"
    /\ UNCHANGED <<data, old, cursor>>

\* (data.next(p), data.next_mut(p)), the references reduced to the elements
\* they point to.
NextMut ==
    /\ op = "new"
    /\ \E p \in Positions :
       \E overflow_checks \in StepBuilds(p) :
          /\ arg' = p
          /\ result' = [shared |-> next(data, p, overflow_checks),
                        mutable |-> next_mut(data, p, overflow_checks)]
          /\ panicked' = next_mut(data, p, overflow_checks).panicked
    /\ op' = "next_mut"
    /\ UNCHANGED <<data, old, cursor>>

\* (data.prev(p), data.prev_mut(p))
PrevMut ==
    /\ op = "new"
    /\ \E p \in Positions :
       \E overflow_checks \in StepBuilds(p) :
          /\ arg' = p
          /\ result' = [shared |-> prev(data, p, overflow_checks),
                        mutable |-> prev_mut(data, p, overflow_checks)]
          /\ panicked' = prev_mut(data, p, overflow_checks).panicked
    /\ op' = "prev_mut"
    /\ UNCHANGED <<data, old, cursor>>

NextFind ==
    \/ NextPredicate
    \/ PrevPredicate
    \/ NextMut
    \/ PrevMut

SpecFind == Init /\ [][NextFind]_vars

\* ------------------------------------------------ the ranges, as a system

\* self.range_bounds(range), as extract and copy_range call it first.
RangeBounds ==
    /\ op = "new"
    /\ \E range \in Ranges :
       \E overflow_checks \in Builds(range) :
          /\ arg' = range
          /\ result' = range_bounds(data, range, overflow_checks)
          /\ panicked' = (range_bounds(data, range, overflow_checks).kind = "Panic")
    /\ op' = "range_bounds"
    /\ UNCHANGED <<data, old, cursor>>

\* let copied = data.copy_range(range.clone());
\* let drained = data.extract(range);
CopyThenExtract ==
    /\ op = "new"
    /\ \E range \in Ranges :
       \E overflow_checks \in Builds(range) :
       \E c \in {copy_range(data, range, overflow_checks)} :
       \E r \in {extract(data, range, overflow_checks)} :
          /\ arg' = range
          /\ result' = [copied |-> c.copied, drained |-> r.drained,
                        copy_panicked |-> c.panicked]
          /\ data' = IF c.panicked THEN data ELSE r.data
          /\ panicked' = (c.panicked \/ r.panicked)
    /\ old' = data
    /\ op' = "copy_extract"
    /\ UNCHANGED cursor

NextRange ==
    \/ RangeBounds
    \/ CopyThenExtract

SpecRange == Init /\ [][NextRange]_vars

\* ------------------------------------------------------------ properties

\* The normalized (start, end) of the range of the last extract or
\* copy_range call.
Normalized == range_bounds(old, arg, FALSE)

FullRange == Range(Unbounded, Unbounded)

\* The last valid column of an existing row: column 0 for an empty row.
LastValidCol(c, row) == IF Len(c[row + 1]) = 0 THEN 0 ELSE Len(c[row + 1]) - 1

\* A start whose row exists, clamped to the last valid column of its row.
ClampedStart(c, s) == Index2(s.row, Min(s.col, LastValidCol(c, s.row)))

\* An end clamped to the (non-empty) container.
ClampedEnd(c, e) ==
    IF e.row >= Len(c)
    THEN Index2(Len(c) - 1, LastValidCol(c, Len(c) - 1))
    ELSE Index2(e.row, Min(e.col, LastValidCol(c, e.row)))

\* The elements of a sequence of rows, in row-major order.
RECURSIVE Flat(_)
Flat(rows) == IF rows = <<>> THEN <<>> ELSE Head(rows) \o Flat(Tail(rows))

\* C1: extract runs to completion (returns a container, does not panic) for
\* every container and every range.
C1_ExtractNeverFails == op = "extract" => ~panicked

\* extract panics on no other input than an excluded start whose column is
\* usize::MAX (val.col + 1 in range_bounds).
ExtractPanicsOnlyByOverflow ==
    (op = "extract" /\ panicked)
        => (arg.start.kind = "Excluded" /\ arg.start.val.col = UsizeMax)

\* The rejected cases of C2: the container is empty, the normalized start row
\* exceeds the last row, the clamped start is after the clamped end, or they
\* are equal and the start column was clamped.
C2_Rejected ==
    \/ is_empty(old)
    \/ /\ Normalized.kind = "Some"
       /\ \/ Normalized.start.row > Len(old) - 1
          \/ LET s == ClampedStart(old, Normalized.start)
                 e == ClampedEnd(old, Normalized.end)
             IN Greater(s, e) \/ (s = e /\ s # Normalized.start)

\* C2: in every rejected case extract returns a container with zero rows and
\* leaves the source container exactly as it was.
C2_RejectedExtractIsNoOp ==
    (op = "extract" /\ ~panicked /\ C2_Rejected)
        => (result = <<>> /\ data = old)

\* A non-empty container, start == end after clamping, the start column
\* clamped: extract returned nothing and changed nothing.
C2_Witness ==
    /\ op = "extract" /\ ~panicked /\ ~is_empty(old)
    /\ Normalized.kind = "Some"
    /\ Normalized.start.row <= Len(old) - 1
    /\ ClampedStart(old, Normalized.start) = ClampedEnd(old, Normalized.end)
    /\ ClampedStart(old, Normalized.start) # Normalized.start
    /\ result = <<>> /\ data = old

\* C3: extract over the unbounded range (..) returns a fragment equal to the
\* container and leaves the source with zero rows; appending the fragment
\* back onto the source gives a container equal to the original.
C3_FullExtractRoundTrips ==
    /\ (op = "extract" /\ arg = FullRange)
           => (~panicked /\ result = old /\ data = <<>>)
    /\ op = "append" => (data = old /\ result = <<>>)

\* The fragment of a container with an empty and a non-empty row was
\* appended back.
C3_Witness ==
    /\ op = "append" /\ data = old
    /\ \E r \in 1..Len(old) : old[r] = <<>>
    /\ \E r \in 1..Len(old) : Len(old[r]) >= 2

\* C4: copy_range over the unbounded range (..) returns a container equal to
\* the original and leaves the source unchanged; a second identical call
\* returns an equal result.
C4_FullCopyEqualsOriginal ==
    /\ (op = "copy_range" /\ arg = FullRange)
           => (~panicked /\ result = old /\ data = old)
    /\ op = "copy_range_again"
           => (~panicked /\ result[1] = result[2] /\ result[2] = old
               /\ data = old)

\* Two full copies of a container whose last row is empty and that has a
\* non-empty row.
C4_Witness ==
    /\ op = "copy_range_again" /\ result = <<old, old>>
    /\ Len(old) >= 2 /\ old[Len(old)] = <<>>
    /\ \E r \in 1..Len(old) : old[r] # <<>>

\* C5: copy_range returns a container with zero rows when the container is
\* empty, when the normalized start row exceeds the last row, and when the
\* clamped start is after the clamped end.
C5_CopyRangeRejectsLikeExtract ==
    (/\ op = "copy_range" /\ ~panicked
     /\ \/ is_empty(old)
        \/ /\ Normalized.kind = "Some"
           /\ \/ Normalized.start.row > Len(old) - 1
              \/ Greater(ClampedStart(old, Normalized.start),
                         ClampedEnd(old, Normalized.end)))
        => result = <<>>

\* The case of C6: extract returned, the container is not empty, the
\* normalized start row exists and the start column exceeds that row's last
\* valid column.
C6_Case ==
    /\ op = "extract" /\ ~panicked /\ ~is_empty(old)
    /\ Normalized.kind = "Some"
    /\ Normalized.start.row < Len(old)
    /\ Normalized.start.col > LastValidCol(old, Normalized.start.row)

\* The fragment's first row is empty and the start row keeps its elements.
C6_EmptyLeadingRow ==
    LET row == Normalized.start.row
    IN /\ Len(result) >= 1 /\ result[1] = <<>>
       /\ Len(data) > row
       /\ SubSeq(data[row + 1], 1, Len(old[row + 1])) = old[row + 1]

\* C6 as stated: in every such case the fragment's first row is empty and
\* the start row keeps all of its elements.
C6_StartPastRowEnd == C6_Case => C6_EmptyLeadingRow

\* C6 amended: when, in addition, the clamped start is before the clamped
\* end (the range is not rejected), the fragment's first row is empty, the
\* fragment holds the elements after the start row through the clamped end,
\* the rows before the start row are unchanged, and the start row is its old
\* elements followed by what then follows it: the rest of the end row, or
\* the row after the end row when the end row was removed whole.
C6_StartPastRowEndNotRejected ==
    LET s == ClampedStart(old, Normalized.start)
        e == ClampedEnd(old, Normalized.end)
        end_row == old[e.row + 1]
        follows == IF e.col < LastValidCol(old, e.row)
                   THEN SubSeq(end_row, e.col + 2, Len(end_row))
                   ELSE IF e.row + 1 < Len(old) THEN old[e.row + 2]
                   ELSE <<>>
    IN (C6_Case /\ Less(s, e))
          => /\ C6_EmptyLeadingRow
             /\ Flat(result) = Flat(SubSeq(old, s.row + 2, e.row))
                                  \o SubSeq(end_row, 1,
                                            Min(e.col + 1, Len(end_row)))
             /\ SubSeq(data, 1, s.row) = SubSeq(old, 1, s.row)
             /\ data[s.row + 1] = old[s.row + 1] \o follows

\* A start past the end of a non-empty first row, an end inside a later
\* row: the fragment is an empty row and the head of that row.
C6_Witness ==
    /\ C6_Case
    /\ Normalized.start.row = 0 /\ old[1] # <<>>
    /\ Less(ClampedStart(old, Normalized.start),
            ClampedEnd(old, Normalized.end))
    /\ ClampedEnd(old, Normalized.end).col
           < LastValidCol(old, ClampedEnd(old, Normalized.end).row)
    /\ Len(result) = 2 /\ result[1] = <<>> /\ result[2] # <<>>

\* C7: a position is in bounds iff get returns an element there or it is
\* column 0 of an existing row; get returns nothing for every out-of-bounds
\* position.
C7_InBoundsIffGetOrCol0 ==
    op = "lookup"
        => /\ ~result.out_of_bounds
                <=> (result.get.some \/ (arg.col = 0 /\ arg.row < Len(data)))
           /\ result.out_of_bounds => ~result.get.some

\* Column 0 of an existing empty row: in bounds, and get returns nothing.
C7_Witness ==
    /\ op = "lookup" /\ arg.col = 0 /\ arg.row < Len(data)
    /\ data[arg.row + 1] = <<>>
    /\ ~result.out_of_bounds /\ ~result.get.some

\* The last in-bounds position of a non-empty container.
LastPosition(c) == Index2(Len(c) - 1, LastValidCol(c, Len(c) - 1))

\* C8: on an in-bounds position p, prev of the position next(p) yields is p
\* and next of the position prev(p) yields is p; next yields no position
\* only at the last in-bounds position and prev only at (0, 0).
C8_NextPrevInverse ==
    /\ (op \in {"next_prev", "prev_next"} /\ ~out_of_bounds(arg, data))
           => (~panicked /\ result.some /\ result.pos = arg)
    /\ (op = "next" /\ ~out_of_bounds(arg, data))
           => (~panicked /\ (~result.some <=> arg = LastPosition(data)))
    /\ (op = "prev" /\ ~out_of_bounds(arg, data))
           => (~panicked /\ (~result.some <=> arg = Index2(0, 0)))

\* next stepped from the end of a row onto an empty row, and prev came back.
C8_Witness ==
    /\ op = "next_prev" /\ ~out_of_bounds(arg, data)
    /\ arg.col >= 1
    /\ data[arg.row + 2] = <<>>
    /\ result.some /\ result.pos = arg

\* The matches of a pattern in one row from column c on: leftmost first,
\* each search resuming after the last element of the previous occurrence.
RECURSIVE RowMatches(_, _, _)
RowMatches(row, pattern, c) ==
    IF c + Len(pattern) > Len(row) THEN <<>>
    ELSE IF SubSeq(row, c + 1, c + Len(pattern)) = pattern
    THEN <<c>> \o RowMatches(row, pattern, c + Len(pattern))
    ELSE RowMatches(row, pattern, c + 1)

\* The reference scan: the matches of the rows from row r (1-based) on.
RECURSIVE ReferenceScan(_, _, _)
ReferenceScan(c, pattern, r) ==
    IF r > Len(c) \/ pattern = <<>> THEN <<>>
    ELSE LET cols == RowMatches(c[r], pattern, 0)
         IN [i \in 1..Len(cols) |-> Index2(r - 1, cols[i])]
                \o ReferenceScan(c, pattern, r + 1)

\* C9: the start positions reported by successive calls on one iterator are
\* strictly increasing in row-major order, and two reported matches in the
\* same row start at least n columns apart, n the length of the pattern.
C9_MatchesDisjoint ==
    (op \in {"match_indices", "match_none", "match_fused"} /\ arg # <<>>)
        => \A i, j \in 1..Len(result) :
              i < j => /\ Less(result[i], result[j])
                       /\ result[i].row = result[j].row
                             => result[j].col - result[i].col >= Len(arg)

\* A pattern of two elements occurs at columns 0, 1 and 2 of a row of
\* four: columns 0 and 2 are reported, column 1 is not.
C9_Witness ==
    /\ op = "match_fused" /\ Len(arg) = 2
    /\ Len(data) = 1 /\ Len(data[1]) = 4
    /\ \A c \in 1..3 : SubSeq(data[1], c, c + 1) = arg
    /\ result = <<Index2(0, 0), Index2(0, 2)>>

\* C10: the positions reported so far are the first ones of the reference
\* leftmost-first disjoint scan, and all of them once next has returned
\* None; the pattern occurs at every reported position; an empty pattern or
\* an empty container yields nothing; no call panics.
C10_MatchesReferenceScan ==
    LET reference == ReferenceScan(data, arg, 1)
    IN op \in {"match_indices", "match_none", "match_fused", "match_panicked"}
          => /\ ~panicked
             /\ Len(result) <= Len(reference)
             /\ result = SubSeq(reference, 1, Len(result))
             /\ op \in {"match_none", "match_fused"} => result = reference
             /\ \A i \in 1..Len(result) :
                   SubSeq(data[result[i].row + 1], result[i].col + 1,
                          result[i].col + Len(arg)) = arg
             /\ (arg = <<>> \/ data = <<>>) => result = <<>>

\* A pattern of two different elements is found in the first row and,
\* after an empty row, in the third row; then None.
C10_Witness ==
    /\ op = "match_none" /\ Len(arg) = 2 /\ arg[1] # arg[2]
    /\ Len(data) = 3 /\ data[2] = <<>>
    /\ result = <<Index2(0, 0), Index2(2, 0)>>

\* An empty pattern on a non-empty container yields nothing.
C10_EmptyPatternWitness ==
    /\ op = "match_fused" /\ arg = <<>> /\ data # <<>> /\ result = <<>>

\* The last k elements of row r followed by the first n - k elements of row
\* r + 1 (rows counted from 1 here) equal the pattern, 0 < k < n.
SpansRows(r, k) ==
    /\ r + 1 <= Len(data)
    /\ k <= Len(data[r])
    /\ Len(arg) - k <= Len(data[r + 1])
    /\ SubSeq(data[r], Len(data[r]) - k + 1, Len(data[r]))
           \o SubSeq(data[r + 1], 1, Len(arg) - k) = arg

\* The position of the first element of such an occurrence.
SpanStart(r, k) == Index2(r - 1, Len(data[r]) - k)

Reported == {result[i] : i \in 1..Len(result)}

C12_SplitOffPartitions ==
    /\ (op = "split_off" /\ ~out_of_bounds(arg, old))
           => /\ ~panicked
              /\ Flat(data) \o Flat(result) = Flat(old)
              /\ IF arg.col = 0
                 THEN /\ data = SubSeq(old, 1, arg.row)
                      /\ result = SubSeq(old, arg.row + 1, Len(old))
                 ELSE /\ Len(data) = arg.row + 1
                      /\ SubSeq(data, 1, arg.row) = SubSeq(old, 1, arg.row)
                      /\ data[arg.row + 1]
                             = SubSeq(old[arg.row + 1], 1, arg.col)
                      /\ Len(result) = Len(old) - arg.row
                      /\ result[1] = SubSeq(old[arg.row + 1], arg.col + 1,
                                            Len(old[arg.row + 1]))
                      /\ Tail(result) = SubSeq(old, arg.row + 2, Len(old))
    /\ (op = "reattach" /\ ~out_of_bounds(arg, old))
           => (data = old /\ result = <<>>)

\* A container of three rows was split inside its middle row and merged
\* back.
C12_Witness ==
    /\ op = "reattach" /\ ~out_of_bounds(arg, old)
    /\ Len(old) = 3 /\ arg = Index2(1, 1) /\ Len(old[2]) = 2
    /\ data = old

\* C13: merge(other) leaves self and other unchanged when other has no
\* rows; makes self exactly other's rows when self has no rows; otherwise
\* self's last row becomes its old elements followed by other's first row,
\* other's remaining rows follow in order and the row count is
\* len(self) + len(other) - 1.  Afterwards other has zero rows and the
\* elements of self are those of old self followed by those of old other.
C13_MergeFusesBoundaryRows ==
    op = "merge"
        => /\ ~panicked
           /\ result = <<>>
           /\ Flat(data) = Flat(old) \o Flat(arg)
           /\ arg = <<>> => data = old
           /\ old = <<>> => data = arg
           /\ (arg # <<>> /\ old # <<>>)
                 => /\ Len(data) = Len(old) + Len(arg) - 1
                    /\ SubSeq(data, 1, Len(old) - 1)
                           = SubSeq(old, 1, Len(old) - 1)
                    /\ data[Len(old)] = old[Len(old)] \o arg[1]
                    /\ SubSeq(data, Len(old) + 1, Len(data)) = Tail(arg)

\* Two containers of two rows each, the boundary rows not empty, merged into
\* three rows.
C13_Witness ==
    /\ op = "merge" /\ Len(old) = 2 /\ Len(arg) = 2
    /\ old[2] # <<>> /\ arg[1] # <<>>
    /\ Len(data) = 3 /\ data[2] = old[2] \o arg[1]

\* What C14 says of join_lines(r) on the container before and after: rows
\* r and r + 1 fused when row r + 1 exists, nothing changed when it does not.
JoinLinesEffect(before, r, after) ==
    IF r + 1 < Len(before)
    THEN /\ Len(after) = Len(before) - 1
         /\ after[r + 1] = before[r + 1] \o before[r + 2]
         /\ SubSeq(after, 1, r) = SubSeq(before, 1, r)
         /\ SubSeq(after, r + 2, Len(after))
                = SubSeq(before, r + 3, Len(before))
         /\ Flat(after) = Flat(before)
    ELSE after = before

\* C14: join_lines(r) returns, having fused row r with row r + 1 when row
\* r + 1 exists (row r + 1 removed, every other row unchanged, the elements
\* of the container unchanged) and having changed nothing when it does not.
C14_JoinLinesFusesOrNoOp ==
    op = "join_lines" => (~panicked /\ JoinLinesEffect(old, arg, data))

\* For every row index below usize::MAX join_lines does what C14 says.
JoinLinesExactBelowMax ==
    (op = "join_lines" /\ arg # UsizeMax)
        => (~panicked /\ JoinLinesEffect(old, arg, data))

\* What C15 says of truncate(p) on the container before and after: the
\* prefix up to p when row p.row exists, nothing changed when it does not.
TruncateEffect(before, p, after) ==
    IF p.row < Len(before)
    THEN /\ Len(after) = p.row + 1
         /\ SubSeq(after, 1, p.row) = SubSeq(before, 1, p.row)
         /\ after[p.row + 1]
                = SubSeq(before[p.row + 1], 1,
                         Min(p.col, Len(before[p.row + 1])))
    ELSE after = before

\* C15: truncate(p) never fails and keeps exactly the prefix up to p, or
\* changes nothing when row p.row does not exist; a second truncate(p)
\* changes nothing more.
C15_TruncateKeepsPrefix ==
    /\ op = "truncate" => (~panicked /\ TruncateEffect(old, arg, data))
    /\ op = "truncate_again" => (~panicked /\ data = result)

\* For every position whose row is below usize::MAX truncate does what C15
\* says.
TruncateExactBelowMax ==
    /\ (op = "truncate" /\ arg.row # UsizeMax)
           => (~panicked /\ TruncateEffect(old, arg, data))
    /\ (op = "truncate_again" /\ arg.row # UsizeMax)
           => (~panicked /\ data = result)

\* C16: remove(position) on an existing element returns it and leaves its
\* row without it, the other rows unchanged; remove(row index) on an
\* existing row returns it and leaves the other rows in order; on a missing
\* row or column the call fails instead of returning.
C16_RemoveExactOrFails ==
    /\ op = "remove"
          => IF arg.row < Len(old) /\ arg.col < Len(old[arg.row + 1])
             THEN /\ ~panicked
                  /\ result = old[arg.row + 1][arg.col + 1]
                  /\ Len(data) = Len(old)
                  /\ \A r \in 1..Len(old) :
                        r # arg.row + 1 => data[r] = old[r]
                  /\ data[arg.row + 1]
                         = SubSeq(old[arg.row + 1], 1, arg.col)
                               \o SubSeq(old[arg.row + 1], arg.col + 2,
                                         Len(old[arg.row + 1]))
             ELSE panicked
    /\ op = "remove_row"
          => IF arg < Len(old)
             THEN /\ ~panicked
                  /\ result = old[arg + 1]
                  /\ data = SubSeq(old, 1, arg) \o SubSeq(old, arg + 2, Len(old))
             ELSE panicked

\* remove at the column just past the end of an existing, non-empty row
\* failed.
C16_Witness ==
    /\ op = "remove" /\ panicked
    /\ arg.row < Len(old) /\ old[arg.row + 1] # <<>>
    /\ arg.col = Len(old[arg.row + 1])

\* remove took the first of two elements out of the middle row of three.
C16_RemovedWitness ==
    /\ op = "remove" /\ ~panicked
    /\ Len(old) = 3 /\ arg = Index2(1, 0) /\ Len(old[2]) = 2
    /\ result = old[2][1] /\ data[2] = <<old[2][2]>>

\* C17: push, insert (element or row), append, merge, join_lines, truncate
\* and split_off complete without failing, for every container and every
\* argument.
C17_OnlyRemoveFails ==
    op \in {"push", "push_row", "insert", "insert_row", "append_other",
            "merge", "join_lines", "truncate", "truncate_again",
            "split_off", "reattach"}
        => ~panicked

\* Where those operations do fail: split_off past the rows or past the end
\* of the row, insert of an element past the end of an existing row, insert
\* of a row past the last row + 1, and join_lines and truncate at row
\* usize::MAX; push, append and merge never.
EditsFailOnlyOutOfBounds ==
    /\ op = "split_off"
          => (panicked <=> IF arg.col = 0 THEN arg.row > Len(old)
                           ELSE \/ arg.row >= Len(old)
                                \/ arg.col > Len(old[arg.row + 1]))
    /\ op = "insert"
          => (panicked <=> /\ arg.row < Len(old)
                           /\ arg.col > Len(old[arg.row + 1]))
    /\ op = "insert_row" => (panicked <=> arg.index > Len(old))
    /\ op = "join_lines" => (panicked => arg = UsizeMax)
    /\ op \in {"truncate", "truncate_again"}
          => (panicked => arg.row = UsizeMax)
    /\ op \in {"push", "push_row", "append_other", "merge", "reattach"}
          => ~panicked

\* What C18 says of insert(p, v): nothing changed when row p.row does not
\* exist; otherwise v at column p.col of that row, the row's other elements
\* in order around it, the other rows unchanged.
InsertEffect(before, p, v, after) ==
    IF p.row >= Len(before) THEN after = before
    ELSE /\ Len(after) = Len(before)
         /\ \A r \in 1..Len(before) : r # p.row + 1 => after[r] = before[r]
         /\ Len(after[p.row + 1]) = Len(before[p.row + 1]) + 1
         /\ p.col < Len(after[p.row + 1])
         /\ after[p.row + 1][p.col + 1] = v
         /\ SubSeq(after[p.row + 1], 1, p.col)
                = SubSeq(before[p.row + 1], 1, p.col)
         /\ SubSeq(after[p.row + 1], p.col + 2, Len(after[p.row + 1]))
                = SubSeq(before[p.row + 1], p.col + 1, Len(before[p.row + 1]))

\* What C18 says of push: an element goes to the end of the last row, or
\* nowhere when there is no row; a row becomes the new last row.
PushEffect ==
    /\ op = "push"
          => /\ ~panicked
             /\ IF old = <<>> THEN data = <<>>
                ELSE /\ Len(data) = Len(old)
                     /\ SubSeq(data, 1, Len(old) - 1)
                            = SubSeq(old, 1, Len(old) - 1)
                     /\ data[Len(old)] = old[Len(old)] \o <<arg>>
    /\ op = "push_row"
          => /\ ~panicked
             /\ Len(data) = Len(old) + 1
             /\ SubSeq(data, 1, Len(old)) = old
             /\ data[Len(data)] = arg

\* C18: push(element) and insert(position, element) change nothing when
\* their target row is absent; otherwise push(element) appends to the last
\* row only and insert places the element at column col of its row only;
\* push(row) appends one new last row.
C18_PushInsertFrame ==
    /\ PushEffect
    /\ op = "insert" => (~panicked /\ InsertEffect(old, arg, NewElement, data))

\* C18 holds for push and for insert at a column that is at most the length
\* of the row; past that, insert fails and changes nothing.
PushInsertExactWithinRow ==
    /\ PushEffect
    /\ op = "insert"
          => IF arg.row < Len(old) /\ arg.col > Len(old[arg.row + 1])
             THEN panicked /\ data = old
             ELSE ~panicked /\ InsertEffect(old, arg, NewElement, data)

\* C20: collecting the full forward traversal of a container gives a
\* container equal to it, row for row, and leaves it unchanged.
C20_CollectIterIsIdentity ==
    op = "collect" => (~panicked /\ result = old /\ data = old)

\* A container whose first and last rows are empty and whose middle row is
\* not was traversed and collected.
C20_Witness ==
    /\ op = "collect" /\ Len(old) = 3
    /\ old[1] = <<>> /\ Len(old[2]) = 2 /\ old[3] = <<>>
    /\ result = old

\* The text has no carriage return.
OrdinaryText(text) == \A i \in 1..Len(text) : text[i] # "\r"

\* The number of newlines of a text.
Newlines(text) == Cardinality({i \in 1..Len(text) : text[i] = "\n"})

\* C19: for a text of ordinary characters and newlines, the container built
\* from it has one row per line, plus an empty last row exactly when the
\* text ends with a newline (no row for the empty text, else one row more
\* than there are newlines; no row holds a newline; the rows together hold
\* the text's other characters in order), and converting the container
\* back, by to_string or into a String, yields the text.
C19_TextRoundTrips ==
    /\ (op = "from_text" /\ OrdinaryText(arg))
           => /\ Len(data) = IF arg = <<>> THEN 0 ELSE Newlines(arg) + 1
              /\ \A r \in 1..Len(data) : \A c \in 1..Len(data[r]) :
                    data[r][c] # "\n"
              /\ Len(Flat(data)) = Len(arg) - Newlines(arg)
              /\ (arg # <<>> /\ arg[Len(arg)] = "\n")
                     => data[Len(data)] = <<>>
    /\ (op \in {"to_string", "string_from"} /\ OrdinaryText(arg))
           => result = arg

\* A text with an empty line inside and a newline at its end went through
\* the container and back.
C19_Witness ==
    /\ op = "to_string" /\ OrdinaryText(arg)
    /\ Len(arg) = 5 /\ arg[2] = "\n" /\ arg[3] = "\n" /\ arg[5] = "\n"
    /\ arg[1] # "\n" /\ arg[4] # "\n"
    /\ Len(data) = 4 /\ data[2] = <<>> /\ data[4] = <<>>
    /\ result = arg

\* A carriage return before a newline does not come back: "a\r\n" is
\* converted to the rows [a], [] and back to "a\n".
CarriageReturnDropped ==
    (op = "to_string" /\ arg = <<"a", "\r", "\n">>)
        => (data = <<<<"a">>, <<>>>> /\ result = <<"a", "\n">>)

\* The in-bounds positions of a container: every column of every row, and
\* column 0 of every empty row.
InBoundsPositions(c) ==
    {Index2(r, k) : r \in 0..(Len(c) - 1), k \in 0..MaxCols} \cap
    {p \in Positions : p.row < Len(c) /\ p.col <= LastValidCol(c, p.row)}

\* The optional element at an in-bounds position.
ElementAt(c, p) ==
    IF Len(c[p.row + 1]) = 0 THEN None ELSE Some(c[p.row + 1][p.col + 1])

\* items holds exactly the positions of span once each, in strictly
\* increasing row-major order, each with its optional element.
YieldsExactly(c, items, span) ==
    /\ Len(items) = Cardinality(span)
    /\ \A i \in 1..Len(items) :
          /\ items[i].pos \in span
          /\ items[i].val = ElementAt(c, items[i].pos)
    /\ \A i \in 1..(Len(items) - 1) : Less(items[i].pos, items[i + 1].pos)

\* C21: for in-bounds positions s <= e, iter().from(s).to(e) yields each
\* in-bounds position p with s <= p <= e exactly once, in strictly
\* increasing row-major order, each paired with get(p) (absent exactly for
\* column 0 of an empty row), the last pair being at e; with no end
\* configured the traversal runs from s to the container's last in-bounds
\* position.
C21_BoundedTraversalYieldsClosedSpan ==
    (op = "forward" /\ arg.from \in InBoundsPositions(data)) =>
        /\ (arg.to.some /\ arg.to.val \in InBoundsPositions(data)
                /\ LessEq(arg.from, arg.to.val)) =>
              /\ YieldsExactly(data, result,
                     {p \in InBoundsPositions(data) :
                         LessEq(arg.from, p) /\ LessEq(p, arg.to.val)})
              /\ result[Len(result)].pos = arg.to.val
        /\ ~arg.to.some =>
              /\ YieldsExactly(data, result,
                     {p \in InBoundsPositions(data) : LessEq(arg.from, p)})
              /\ result[Len(result)].pos = LastPosition(data)

\* A bounded traversal over three rows, the middle one empty, that ends
\* before the end of the container.
C21_Witness ==
    /\ op = "forward"
    /\ arg.to.some
    /\ arg.from \in InBoundsPositions(data)
    /\ arg.to.val \in InBoundsPositions(data)
    /\ arg.from.row = 0 /\ arg.from.col = 1
    /\ arg.to.val.row = 2
    /\ Len(data) = 3 /\ Len(data[2]) = 0 /\ Len(data[3]) = 2
    /\ arg.to.val.col = 0
    /\ Len(result) = 3
    /\ ~result[2].val.some

\* A traversal with no end, from inside the container to its last position.
C21_UnboundedWitness ==
    /\ op = "forward"
    /\ ~arg.to.some
    /\ arg.from \in InBoundsPositions(data)
    /\ arg.from # Index2(0, 0)
    /\ Len(result) >= 3
    /\ result[Len(result)].pos = LastPosition(data)

\* The case of C22: an in-bounds start, and an end in an existing row, not
\* above the start's, whose column lies past the row's last valid column.
C22_Case ==
    /\ op = "forward"
    /\ arg.from \in InBoundsPositions(data)
    /\ arg.to.some
    /\ arg.to.val.row < Len(data)
    /\ arg.to.val.row >= arg.from.row
    /\ arg.to.val.col > LastValidCol(data, arg.to.val.row)

\* C22: an end position whose column lies past the end of its existing row
\* stops the traversal at the end of that row: iter().from(s).to(e) yields
\* the positions from s through the last in-bounds position of row e.row
\* and no position of any later row.
C22_EndPastRowStopsAtRowEnd ==
    C22_Case =>
        YieldsExactly(data, result,
            {p \in InBoundsPositions(data) :
                LessEq(arg.from, p) /\ p.row <= arg.to.val.row})

\* What the code does in the case of C22: to() clamps the column to the
\* row's length, which is the position of no element unless the row is
\* empty, so the traversal stops at the row's end only for an empty row and
\* runs to the end of the container otherwise.
EndPastRowStopsOnlyOnEmptyRow ==
    C22_Case =>
        YieldsExactly(data, result,
            {p \in InBoundsPositions(data) :
                /\ LessEq(arg.from, p)
                /\ (Len(data[arg.to.val.row + 1]) = 0
                       => p.row <= arg.to.val.row)})

\* The case of C22 on an empty row, where the traversal does stop: rows
\* follow the end's row and none of their positions is yielded.
EndPastEmptyRowWitness ==
    /\ C22_Case
    /\ Len(data[arg.to.val.row + 1]) = 0
    /\ arg.to.val.row < Len(data) - 1
    /\ arg.from.row < arg.to.val.row
    /\ result[Len(result)].pos = Index2(arg.to.val.row, 0)

\* items holds exactly the positions of span once each, in strictly
\* decreasing row-major order, each with its optional element.
YieldsExactlyBackward(c, items, span) ==
    /\ Len(items) = Cardinality(span)
    /\ \A i \in 1..Len(items) :
          /\ items[i].pos \in span
          /\ items[i].val = ElementAt(c, items[i].pos)
    /\ \A i \in 1..(Len(items) - 1) : Less(items[i + 1].pos, items[i].pos)

\* C23: reverse traversal never fails and mirrors forward traversal: for
\* every container, the empty one included, and every start position, in
\* bounds or not, iter().from(s).rev() completes without failing, yields
\* positions in strictly decreasing row-major order and, on a non-empty
\* container, ends after yielding (0, 0); for an in-bounds s it yields
\* exactly the in-bounds positions p <= s.
C23_ReverseTraversalNeverFails ==
    op = "reverse" =>
        /\ ~panicked
        /\ cursor.finished
        /\ \A i \in 1..(Len(result) - 1) : Less(result[i + 1].pos, result[i].pos)
        /\ ~is_empty(data) =>
              /\ Len(result) > 0
              /\ result[Len(result)].pos = Index2(0, 0)
        /\ arg.from \in InBoundsPositions(data) =>
              YieldsExactlyBackward(data, result,
                  {p \in InBoundsPositions(data) : LessEq(p, arg.from)})

\* What the code does from an in-bounds start: no failure, exactly the
\* in-bounds positions p <= s in decreasing order, the last one (0, 0).
ReverseExactFromInBounds ==
    (op = "reverse" /\ arg.from \in InBoundsPositions(data)) =>
        /\ ~panicked
        /\ cursor.finished
        /\ YieldsExactlyBackward(data, result,
               {p \in InBoundsPositions(data) : LessEq(p, arg.from)})
        /\ result[Len(result)].pos = Index2(0, 0)

\* The failures of reverse traversal: the start is column 0 of a row that
\* does not exist (on the empty container, position (0, 0) itself) and the
\* build checks overflow, so that `index.col - 1` in prev panics.
ReverseFailsOnlyAtMissingRow ==
    op = "reverse" =>
        (panicked <=>
            /\ arg.overflow_checks
            /\ arg.from.col = 0
            /\ arg.from.row >= Len(data)
            /\ as_isize(arg.from.row) >= 0)

\* A start that is out of bounds in a row that exists: it is yielded with
\* an absent element, and the traversal goes on only if the column before
\* it holds an element.
ReverseFromPastRowEnd ==
    (/\ op = "reverse"
     /\ arg.from.row < Len(data)
     /\ arg.from.col > Len(data[arg.from.row + 1])) =>
        /\ ~panicked
        /\ result = <<Item(None, arg.from)>>

\* A reverse traversal from an in-bounds start across an empty row.
ReverseWitness ==
    /\ op = "reverse"
    /\ arg.from \in InBoundsPositions(data)
    /\ arg.from.row = 2
    /\ Len(data[2]) = 0
    /\ Len(result) >= 4

\* C24: forward traversal always terminates and exhaustion is permanent:
\* for every container and every start and end configuration (in or out of
\* bounds, end before start, end never reached) the iterator yields
\* finitely many pairs, at most one per in-bounds position and never an
\* out-of-bounds position, and a call after it has reported exhaustion
\* reports exhaustion again, leaving the iterator as it was, so that every
\* later call does the same.
C24_ForwardTerminatesAndStaysExhausted ==
    /\ op \in {"forward", "forward_again"} =>
          /\ cursor.finished
          /\ Len(result) <= Cardinality(InBoundsPositions(data))
          /\ \A i \in 1..Len(result) :
                /\ result[i].pos \in InBoundsPositions(data)
                /\ \A j \in 1..Len(result) :
                      result[i].pos = result[j].pos => i = j
    /\ op = "forward_again" => cursor.it = cursor.before

\* A call after exhaustion, for an end that lies before the start and is
\* therefore never reached.
C24_Witness ==
    /\ op = "forward_again"
    /\ arg.to.some
    /\ arg.to.val \in InBoundsPositions(data)
    /\ arg.from \in InBoundsPositions(data)
    /\ Less(arg.to.val, arg.from)
    /\ Len(result) >= 2

\* A call after exhaustion for a start that is out of bounds: nothing was
\* yielded.
C24_OutOfBoundsWitness ==
    /\ op = "forward_again"
    /\ ~is_empty(data)
    /\ arg.from \notin InBoundsPositions(data)
    /\ result = <<>>

\* The in-bounds positions whose optional element the predicate accepts.
Satisfying(c, f) ==
    {q \in InBoundsPositions(c) : accepts(f, ElementAt(c, q))}

\* found is the search result for the candidate positions: nothing if there
\* is none, else the candidate nearest to the start with its element.
NearestOf(c, found, candidates, nearer(_, _)) ==
    IF candidates = {} THEN ~found.some
    ELSE /\ found.some
         /\ found.pos \in candidates
         /\ \A q \in candidates : q = found.pos \/ nearer(found.pos, q)
         /\ found.val = ElementAt(c, found.pos)

\* C25: for an in-bounds position p and a predicate f over the optional
\* element, next_predicate(p, f) returns the first position after p in
\* forward traversal order whose optional element (absent for an empty row)
\* satisfies f, with that element, and nothing if no later position
\* satisfies f; prev_predicate is the mirror image in backward order.  The
\* start p itself is never returned, and neither search fails.
C25_PredicateSearchFindsNearest ==
    (op \in {"next_predicate", "prev_predicate"}
        /\ arg.index \in InBoundsPositions(data)) =>
        /\ ~panicked
        /\ result.some => result.pos # arg.index
        /\ op = "next_predicate" =>
              NearestOf(data, result,
                  {q \in Satisfying(data, arg.f) : Less(arg.index, q)}, Less)
        /\ op = "prev_predicate" =>
              NearestOf(data, result,
                  {q \in Satisfying(data, arg.f) : Less(q, arg.index)}, Greater)

\* A forward search for an absent element: it passes over elements, which
\* the predicate refuses, and stops on an empty row although a second
\* empty row follows.
C25_Witness ==
    /\ op = "next_predicate"
    /\ arg.index = Index2(0, 0)
    /\ arg.f.none /\ arg.f.vals = {}
    /\ Len(data) = 3 /\ Len(data[1]) = 2 /\ Len(data[2]) = 0 /\ Len(data[3]) = 0
    /\ result.some
    /\ result.pos = Index2(1, 0)
    /\ ~result.val.some

\* A backward search that passes over an empty row and finds an element of
\* an earlier row; the start satisfies the predicate too and is not
\* returned.
C25_BackwardWitness ==
    /\ op = "prev_predicate"
    /\ arg.index \in InBoundsPositions(data)
    /\ arg.index.row = 2
    /\ Len(data[2]) = 0
    /\ ~arg.f.none
    /\ arg.f.vals = Elements(data)
    /\ arg.index \in Satisfying(data, arg.f)
    /\ result.some
    /\ result.pos.row = 0

\* A search that finds nothing although the start itself satisfies the
\* predicate.
C25_NothingFoundWitness ==
    /\ op = "next_predicate"
    /\ arg.index \in Satisfying(data, arg.f)
    /\ arg.index # LastPosition(data)
    /\ ~result.some

\* Two single-step results navigate alike: both fail, both report nothing,
\* or both report the same position.
SameNavigation(a, b) ==
    /\ a.panicked = b.panicked
    /\ a.some = b.some
    /\ a.some => a.pos = b.pos

\* C26: the mutable single-step variants navigate exactly like the
\* read-only ones: for every container and position p, next_mut(p) reports
\* a position iff next(p) does and reports the same position, and
\* prev_mut(p) reports a position iff prev(p) does and reports the same
\* position; in particular stepping onto an empty row yields a present
\* position with an absent element.
C26_MutableVariantsNavigateAlike ==
    op \in {"next_mut", "prev_mut"} =>
        /\ SameNavigation(result.mutable, result.shared)
        /\ (result.shared.some /\ ~result.shared.val.some) =>
              (result.mutable.some /\ ~result.mutable.val.some)

\* What holds of next_mut: it navigates like next, with the same element.
NextMutNavigatesLikeNext ==
    op = "next_mut" => result.mutable = result.shared

\* What holds of prev_mut: it agrees with prev except where prev steps onto
\* an empty row, and there prev_mut reports nothing.
PrevMutMissesEmptyRow ==
    op = "prev_mut" =>
        IF result.shared.some /\ ~result.shared.val.some
        THEN /\ result.mutable = NoStep
             /\ arg.col = 0
             /\ result.shared.pos = Index2(arg.row - 1, 0)
             /\ Len(data[arg.row]) = 0
        ELSE result.mutable = result.shared

\* prev steps back onto an empty row.
PrevOntoEmptyRowWitness ==
    /\ op = "prev_mut"
    /\ result.shared.some
    /\ ~result.shared.val.some
    /\ ~result.mutable.some

\* The table of C27 for the start of a range.
TableStart(sb) ==
    CASE sb.kind = "Included" -> sb.val
      [] sb.kind = "Excluded" -> Index2(sb.val.row, sb.val.col + 1)
      [] OTHER -> Index2(0, 0)

\* The last valid column of row r, 0 when the row is empty or missing.
LastValidColOrZero(c, r) ==
    IF r < Len(c) /\ Len(c[r + 1]) > 0 THEN Len(c[r + 1]) - 1 ELSE 0

\* The table of C27 for the end of a range, other than an excluded (0, 0).
TableEnd(c, eb) ==
    CASE eb.kind = "Included" -> eb.val
      [] eb.kind = "Excluded" /\ eb.val.col = 0 ->
             Index2(eb.val.row - 1, LastValidColOrZero(c, eb.val.row - 1))
      [] eb.kind = "Excluded" -> Index2(eb.val.row, eb.val.col - 1)
      [] OTHER -> IF Len(c) = 0 THEN Index2(0, 0) ELSE LastPosition(c)

\* An excluded end (0, 0).
NoRange(range) == range.end = Excluded(Index2(0, 0))

\* The table applied to a normalization result.
FollowsTable(c, range, rb) ==
    IF NoRange(range) THEN rb.kind = "None"
    ELSE /\ rb.kind = "Some"
         /\ rb.start = TableStart(range.start)
         /\ rb.end = TableEnd(c, range.end)

\* C27: range normalization follows the table for every bound combination:
\* an included bound is taken as is; an excluded start (r, c) becomes
\* (r, c+1); an excluded end (0, 0) yields no range, and extract and
\* copy_range then return an empty container and leave the source
\* unchanged; an excluded end (r, 0) with r > 0 becomes (r-1, last valid
\* column of row r-1), column 0 when that row is empty or missing; an
\* excluded end (r, c) with c > 0 becomes (r, c-1); an unbounded start
\* becomes (0, 0) and an unbounded end the last valid position of the
\* container.
C27_NormalizationFollowsTable ==
    /\ op = "range_bounds" => FollowsTable(data, arg, result)
    /\ (op = "copy_extract" /\ NoRange(arg)) =>
          /\ ~panicked
          /\ result.copied = <<>>
          /\ result.drained = <<>>
          /\ data = old

\* The one departure from the table: an excluded start at column
\* usize::MAX, where c + 1 overflows.
StartOverflows(range) ==
    range.start.kind = "Excluded" /\ range.start.val.col = UsizeMax

\* What holds: the table is followed for every other bound combination,
\* and at the overflow the call fails in a build that checks overflow and
\* takes the start column as 0 in one that wraps.
TableFollowedExceptStartOverflow ==
    /\ (op = "range_bounds" /\ ~StartOverflows(arg)) =>
          FollowsTable(data, arg, result)
    /\ (op = "range_bounds" /\ StartOverflows(arg)) =>
          \/ result.kind = "Panic"
          \/ /\ ~NoRange(arg)
             /\ result.start = Index2(arg.start.val.row, 0)
          \/ /\ NoRange(arg)
             /\ result.kind = "None"
    /\ (op = "copy_extract" /\ NoRange(arg)) =>
          /\ panicked => StartOverflows(arg)
          /\ ~panicked =>
                (result.copied = <<>> /\ result.drained = <<>> /\ data = old)

\* The case of the table that reads the container: an excluded end (r, 0)
\* below a non-empty row.
ExcludedRowStartWitness ==
    /\ op = "range_bounds"
    /\ arg.end.kind = "Excluded"
    /\ arg.end.val = Index2(2, 0)
    /\ Len(data) = 3 /\ Len(data[2]) = 2
    /\ result.kind = "Some"
    /\ result.end = Index2(1, 1)

\* Columns lo..=hi of a row, as far as the row has them.
Slice(row, lo, hi) == SubSeq(row, lo + 1, Min(hi + 1, Len(row)))

\* The fragment of C28 for in-bounds s <= e: the tail of the start row from
\* s.col, the whole rows in between, the head of the end row through e.col;
\* a single row slice when s.row = e.row.
Fragment(c, s, e) ==
    IF s.row = e.row THEN <<Slice(c[s.row + 1], s.col, e.col)>>
    ELSE <<Slice(c[s.row + 1], s.col, Len(c[s.row + 1]))>>
         \o SubSeq(c, s.row + 2, e.row)
         \o <<Slice(c[e.row + 1], 0, e.col)>>

\* The case of C28: a range s..=e of in-bounds positions s <= e.
C28_Case ==
    /\ op = "copy_extract"
    /\ arg.start.kind = "Included"
    /\ arg.end.kind = "Included"
    /\ arg.start.val \in InBoundsPositions(old)
    /\ arg.end.val \in InBoundsPositions(old)
    /\ LessEq(arg.start.val, arg.end.val)

\* C28: on well-formed ranges extract and copy_range agree on the fragment:
\* for in-bounds positions s <= e, the container returned by extract(s..=e)
\* equals copy_range(s..=e) evaluated on the container before the
\* extraction, and both are the tail of the start row from s.col, the whole
\* rows in between and the head of the end row through e.col (a single row
\* slice when s.row = e.row, an empty row for an empty row inside the span).
C28_ExtractAndCopyAgree ==
    C28_Case =>
        /\ ~panicked
        /\ result.drained = result.copied
        /\ result.copied = Fragment(old, arg.start.val, arg.end.val)

\* A range from inside the first row to inside the third, over an empty
\* row.
C28_Witness ==
    /\ C28_Case
    /\ Len(old) = 3 /\ Len(old[1]) = 2 /\ Len(old[2]) = 0 /\ Len(old[3]) = 2
    /\ arg.start.val = Index2(0, 1)
    /\ arg.end.val = Index2(2, 0)
    /\ result.drained = << <<old[1][2]>>, <<>>, <<old[3][1]>> >>
    /\ data = << <<old[1][1], old[3][2]>> >>

\* d was cut out of f in one piece, leaving r: f = r[0..k] ++ d ++ r[k..].
CutOut(f, r, d) ==
    \E k \in 0..Len(r) : f = SubSeq(r, 1, k) \o d \o SubSeq(r, k + 1, Len(r))

\* C29: extract removes one contiguous run of elements and neither loses
\* nor duplicates any: for every range, in or out of bounds, with F the
\* concatenated elements of the original container, R those of the
\* container after the call and D those of the returned fragment, there is
\* a k with F = R[0..k] ++ D ++ R[k..]; the elements of remainder and
\* fragment together number as many as the original's, and their rows
\* together number the original's rows or one more.
C29_ExtractRemovesOneRun ==
    (op = "extract" /\ ~panicked) =>
        /\ CutOut(Flat(old), Flat(data), Flat(result))
        /\ Cells(data) + Cells(result) = Cells(old)
        /\ Len(data) + Len(result) \in {Len(old), Len(old) + 1}

\* An extraction out of the middle of the elements that splits two rows:
\* remainder and fragment have one row more than the original.
C29_Witness ==
    /\ op = "extract"
    /\ ~panicked
    /\ Len(Flat(result)) >= 2
    /\ Len(Flat(data)) >= 2
    /\ Head(Flat(data)) = Head(Flat(old))
    /\ Flat(data)[Len(Flat(data))] = Flat(old)[Len(Flat(old))]
    /\ Len(data) + Len(result) = Len(old) + 1

\* An extraction with an out-of-bounds range that takes elements.
C29_OutOfBoundsWitness ==
    /\ op = "extract"
    /\ ~panicked
    /\ arg.start.kind = "Included"
    /\ arg.end.kind = "Included"
    /\ arg.start.val \notin InBoundsPositions(old)
    /\ arg.end.val \notin InBoundsPositions(old)
    /\ Len(Flat(result)) >= 1
    /\ Len(Flat(data)) >= 1

\* A reported start lies in row r of the container with the n columns of
\* the match: an in-bounds position, n - 1 columns before the column c
\* where the window equalled the pattern.
StartsInsideRow(c, p, n) ==
    /\ p.row < Len(c)
    /\ p.col < Len(c[p.row + 1])
    /\ p.col + n <= Len(c[p.row + 1])

\* C30: the start-of-match computation never underflows and every match
\* lies inside one row: whenever the window equals the pattern at (r, c),
\* c >= n - 1, so `index.col -= n - 1` does not underflow, and the reported
\* start (r, c-n+1) is an in-bounds position of row r from which the row
\* holds the n elements of the window.  Stated for the call about to be
\* made in every state of an iterator, and for the starts reported so far.
C30_MatchStartNeverUnderflows ==
    /\ op # "match_panicked"
    /\ op \in {"match_indices", "match_none", "match_fused"} =>
          /\ \A i \in 1..Len(result) : StartsInsideRow(data, result[i], Len(arg))
          /\ LET r == match_next(data, arg, cursor)
             IN r.some =>
                   /\ ~r.underflows
                   /\ StartsInsideRow(data, r.pos, Len(arg))
                   /\ SubSeq(data[r.pos.row + 1], r.pos.col + 1,
                             r.pos.col + Len(arg)) = arg

\* The last element of the first row and the first of the second row read
\* as the pattern, and the only match reported is the one inside the second
\* row, found with a window that was emptied at its column 0.
C30_Witness ==
    /\ op = "match_fused"
    /\ Len(arg) = 2
    /\ Len(data) = 2 /\ Len(data[1]) = 1 /\ Len(data[2]) = 3
    /\ <<data[1][1], data[2][1]>> = arg
    /\ result = <<Index2(1, 1)>>

\* A second match in the same row, found with a window that began at the
\* resume point after the first.
C30_ResumeWitness ==
    /\ op = "match_indices"
    /\ Len(arg) = 2
    /\ Len(data) = 1 /\ Len(data[1]) = 4
    /\ result = <<Index2(0, 0)>>
    /\ cursor = Some(Index2(0, 2))
    /\ match_next(data, arg, cursor).some
    /\ match_next(data, arg, cursor).pos = Index2(0, 2)
====
